---- MODULE Spec2Model ----
(***************************************************************************)
(* ProfileScope (src/profilescope.py): the comparator (compare_reports and *)
(* the `compare` command of main), the stats parser, and the profile() /   *)
(* save_report() session with its temporary file and its report files.     *)
(*                                                                         *)
(* Numbers.  Times are kept in integer time units and call counts in       *)
(* integer units; a percentage is an exact fraction <<n, d>> in lowest     *)
(* terms with d > 0.  Python computes these in binary floating point; the  *)
(* model is exact arithmetic over the same expressions.                    *)
(***************************************************************************)
EXTENDS Integers, Sequences, FiniteSets, TLC

\* ------------------------------------------------------------------ bounds

\* Largest total_time (time units) and total_calls a report file holds.
MaxTime == 11
MaxCalls == 6

VARIABLES
    \* the `compare` command: the two files named on the command line,
    \* the outcome of ProfileScope() (mkdir), what compare_reports raised or
    \* returned, main's return value and what it printed
    cmp_pc, baseline_file, current_file, mkdir_ok, raised, comparison,
    exit_code, printed,
    \* the stats parser: the text print_stats wrote, the measured run time
    \* and the list _extract_hot_functions returns
    parse_pc, output, run_total_time, hot_functions,
    \* a session of ProfileScope calls.  profile(): where it is (pc), its
    \* arguments and locals (script_path, script_args, old_argv, tmp_path,
    \* run: what the profiler measured), how the subject ended, the exception
    \* in flight (pending), and what the call returned or raised
    \* (profile_result).  The process: sys.argv, the temporary files that
    \* exist, the clock in seconds.  save_report(): the report the caller
    \* holds, the files of the report directory, what the call returned.
    pc, script_path, script_args, old_argv, tmp_path, run, subject, pending,
    profile_result, sys_argv, tmp_files, clock, held_report, files,
    save_result, profiles, saves,
    \* the `run` command: the command line and what the environment does
    \* (run_args), main's position, the exit status of the process, what it
    \* printed and the files of the report directory
    run_pc, run_args, run_exit, run_printed, run_files,
    \* the analysis of a list of function records and the export of the
    \* report built from it: the list and the measured time, the bottlenecks
    \* and recommendations, then the format asked for, the report directory,
    \* what save_report returned or raised, and what json.load reads back
    an_pc, an_funcs, an_total_time, an_bottlenecks, an_recommendations,
    an_format, an_dir, an_saved, an_loaded,
    \* the stats of a run, the text print_stats writes for them and the
    \* records _extract_hot_functions returns
    st_pc, st_stats, st_funcs

cmpVars == <<cmp_pc, baseline_file, current_file, mkdir_ok, raised, comparison,
             exit_code, printed>>

parseVars == <<parse_pc, output, run_total_time, hot_functions>>

profileVars == <<pc, script_path, script_args, old_argv, tmp_path, run, subject,
                 pending, profile_result, sys_argv, tmp_files, profiles>>

saveVars == <<clock, held_report, files, save_result, saves>>

runVars == <<run_pc, run_args, run_exit, run_printed, run_files>>

analyseVars == <<an_pc, an_funcs, an_total_time, an_bottlenecks, an_recommendations,
                 an_format, an_dir, an_saved, an_loaded>>

statsVars == <<st_pc, st_stats, st_funcs>>

vars == <<cmpVars, parseVars, profileVars, saveVars, runVars, analyseVars, statsVars>>

\* -------------------------------------------------------------- arithmetic

Abs(n) == IF n < 0 THEN -n ELSE n

RECURSIVE GCD(_, _)
GCD(a, b) == IF b = 0 THEN a ELSE GCD(b, a % b)

\* The fraction n/d (d # 0) in lowest terms with a positive denominator.
Frac(n, d) ==
    LET s == IF d < 0 THEN -1 ELSE 1
        g == GCD(Abs(n), Abs(d))
    IN  <<(s * n) \div g, (s * d) \div g>>

Zero == <<0, 1>>

\* f > k for a fraction f and an integer k.
FracGT(f, k) == f[1] > k * f[2]

FracGE(f, k) == f[1] >= k * f[2]

\* ------------------------------------------------- JSON values and files

\* A JSON value as compare_reports sees it: a number, something that is not
\* a number (a string, null), or a key that the object does not hold.
Num(n) == [t |-> "num", v |-> n]

NonNumber == [t |-> "str"]

Missing == [t |-> "missing"]

List(s) == [t |-> "list", v |-> s]

\* A bottleneck string "{name} ({percent:.1f}% of total time)": the name and
\* the percentage in tenths.  Two strings are equal iff both parts are.
Bottleneck(name, tenths) == [name |-> name, percent |-> tenths]

BottleneckLists ==
    LET f50 == Bottleneck("f", 500)
        f51 == Bottleneck("f", 501)
        g12 == Bottleneck("g", 125)
    IN  {<< >>, <<f50>>, <<g12>>, <<f50, g12>>, <<f51, f51>>}

\* What a path given to compare_reports holds.
Absent == [kind |-> "absent"]

Unreadable == [kind |-> "unreadable"]

InvalidJson == [kind |-> "invalid_json"]

NotObject == [kind |-> "not_object"]

Object(tt, tc, b) ==
    [kind |-> "object", total_time |-> tt, total_calls |-> tc, bottlenecks |-> b]

\* Reports as save_report writes them, and hand-written ones of the same
\* shape (the tests write theirs with json.dump): every pair of totals with
\* an empty bottleneck list, and every bottleneck list (or none: the key may
\* be left out) with small totals.  The three parts of a comparison (time,
\* calls, bottlenecks) are computed independently of each other.
WellFormedFiles ==
    {Object(Num(t), Num(c), List(<< >>)) : t \in -1 .. MaxTime, c \in -1 .. MaxCalls}
    \cup
    {Object(Num(t), Num(c), b) :
        t \in 0 .. 2, c \in 0 .. 2,
        b \in {List(l) : l \in BottleneckLists} \cup {Missing}}

MalformedFiles ==
    {InvalidJson, NotObject,
     Object(Missing, Num(1), List(<< >>)),
     Object(Num(1), Missing, List(<< >>)),
     Object(NonNumber, Num(1), List(<< >>)),
     Object(Num(1), NonNumber, List(<< >>)),
     Object(Num(0), NonNumber, List(<< >>)),
     Object(Num(1), Num(1), Num(5))}

ReportFiles == {Absent, Unreadable} \cup MalformedFiles \cup WellFormedFiles

WellFormed(f) ==
    /\ f.kind = "object"
    /\ f.total_time.t = "num"
    /\ f.total_calls.t = "num"
    /\ f.bottlenecks.t \in {"list", "missing"}

\* ------------------------------------------------------------ exceptions

NoException == "none"

\* Python's class hierarchy, as far as the handlers of main tell classes apart.
IsFileNotFoundError(e) == e = "FileNotFoundError"

IsValueError(e) == e \in {"ValueError", "JSONDecodeError"}

IsRuntimeError(e) == e = "RuntimeError"

IsException(e) ==
    e \in {"FileNotFoundError", "PermissionError", "OSError", "ValueError",
           "JSONDecodeError", "KeyError", "TypeError", "RuntimeError"}

\* ------------------------------------------------------- compare_reports

Exists(f) == f.kind # "absent"

\* with open(path) as f: json.load(f)
LoadError(f) ==
    CASE f.kind = "unreadable" -> "PermissionError"
      [] f.kind = "invalid_json" -> "JSONDecodeError"
      [] OTHER -> NoException

\* d[key] on the loaded value
SubscriptError(f, key) ==
    IF f.kind # "object" THEN "TypeError"
    ELSE IF f[key].t = "missing" THEN "KeyError"
    ELSE NoException

\* ((c - b) / b) * 100 if b > 0 else 0.0: the exception it raises
ChangeError(b, c) ==
    IF b.t # "num" THEN "TypeError"
    ELSE IF b.v > 0 /\ c.t # "num" THEN "TypeError"
    ELSE NoException

\* Mutants of ChangePercent: the factor 100 left out; the ratio current/baseline
\* instead of the relative change.
ChangePercentNoScale(b, c) ==
    IF b.v > 0 THEN Frac(c.v - b.v, b.v) ELSE Zero

ChangePercentRatio(b, c) ==
    IF b.v > 0 THEN Frac(c.v * 100, b.v) ELSE Zero

ChangePercent(b, c) ==
    IF b.v > 0 THEN Frac((c.v - b.v) * 100, b.v) ELSE Zero

\* set(d.get('bottlenecks', []))
BottleneckSetError(f) ==
    IF f.bottlenecks.t \in {"list", "missing"} THEN NoException ELSE "TypeError"

BottleneckSet(f) ==
    IF f.bottlenecks.t = "missing" THEN {}
    ELSE {f.bottlenecks.v[i] : i \in DOMAIN f.bottlenecks.v}

\* Mutant of NewBottlenecks: the operands of the difference swapped.
NewBottlenecksSwapped(baseline, current) ==
    BottleneckSet(baseline) \ BottleneckSet(current)

NewBottlenecks(baseline, current) == BottleneckSet(current) \ BottleneckSet(baseline)

FixedBottlenecks(baseline, current) == BottleneckSet(baseline) \ BottleneckSet(current)

\* time_change > 10.0 or calls_change > 20.0
TimeRegressionPercent == 10

CallsRegressionPercent == 20

\* Mutant of RegressionDetected: >= for >.
RegressionDetectedInclusive(time_change, calls_change) ==
    \/ FracGE(time_change, TimeRegressionPercent)
    \/ FracGE(calls_change, CallsRegressionPercent)

RegressionDetected(time_change, calls_change) ==
    \/ FracGT(time_change, TimeRegressionPercent)
    \/ FracGT(calls_change, CallsRegressionPercent)

NoComparison == [kind |-> "none"]

Raise(e) == [raised |-> e, comparison |-> NoComparison]

FirstError(errors) ==
    LET bad == {i \in DOMAIN errors : errors[i] # NoException}
    IN  IF bad = {} THEN NoException
        ELSE errors[CHOOSE i \in bad : \A j \in bad : i <= j]

\* The exception compare_reports raises on the way to its result, statement
\* by statement, NoException if it reaches the return.
CompareError(baseline, current) ==
    IF ~Exists(baseline) \/ ~Exists(current) THEN "FileNotFoundError"
    ELSE IF FirstError(<<LoadError(baseline), LoadError(current)>>) # NoException
    THEN FirstError(<<LoadError(baseline), LoadError(current)>>)
    ELSE IF FirstError(<<SubscriptError(baseline, "total_time"),
                         SubscriptError(current, "total_time")>>) # NoException
    THEN FirstError(<<SubscriptError(baseline, "total_time"),
                      SubscriptError(current, "total_time")>>)
    ELSE IF ChangeError(baseline.total_time, current.total_time) # NoException
    THEN ChangeError(baseline.total_time, current.total_time)
    ELSE IF FirstError(<<SubscriptError(baseline, "total_calls"),
                         SubscriptError(current, "total_calls")>>) # NoException
    THEN FirstError(<<SubscriptError(baseline, "total_calls"),
                      SubscriptError(current, "total_calls")>>)
    ELSE IF ChangeError(baseline.total_calls, current.total_calls) # NoException
    THEN ChangeError(baseline.total_calls, current.total_calls)
    ELSE FirstError(<<BottleneckSetError(baseline), BottleneckSetError(current)>>)

compare_reports(baseline, current) ==
    IF CompareError(baseline, current) # NoException
    THEN Raise(CompareError(baseline, current))
    ELSE LET time_change == ChangePercent(baseline.total_time, current.total_time)
             calls_change == ChangePercent(baseline.total_calls, current.total_calls)
         IN  [raised |-> NoException,
              comparison |->
                [kind |-> "comparison",
                 baseline_time |-> baseline.total_time,
                 current_time |-> current.total_time,
                 time_change_percent |-> time_change,
                 baseline_calls |-> baseline.total_calls,
                 current_calls |-> current.total_calls,
                 calls_change_percent |-> calls_change,
                 new_bottlenecks |-> NewBottlenecks(baseline, current),
                 fixed_bottlenecks |-> FixedBottlenecks(baseline, current),
                 regression_detected |-> RegressionDetected(time_change, calls_change)]]

\* ------------------------------------------------- main: the compare command

Out(text) == [stream |-> "stdout", text |-> text]

Err(text) == [stream |-> "stderr", text |-> text]

RECURSIVE Repeat(_, _)
Repeat(x, n) == IF n = 0 THEN << >> ELSE <<x>> \o Repeat(x, n - 1)

\* "{x:.3f}" and "{x:,}" raise ValueError for a value that is not a number.
Formats(v) == v.t = "num"

\* The lines main prints for a comparison up to the first f-string that
\* raises; `failed` says whether one did.
ComparisonLines(c) ==
    LET head == <<Out("rule"), Out("PROFILESCOPE COMPARISON REPORT"), Out("rule"),
                  Out("Baseline Time")>>
        times == <<Out("Current Time"), Out("Change time"), Out("blank"),
                   Out("Baseline Calls")>>
        calls == <<Out("Current Calls"), Out("Change calls"), Out("blank")>>
        new == IF c.new_bottlenecks = {} THEN << >>
               ELSE <<Out("[!] New Bottlenecks:")>>
                    \o Repeat(Out("bottleneck"), Cardinality(c.new_bottlenecks))
                    \o <<Out("blank")>>
        fixed == IF c.fixed_bottlenecks = {} THEN << >>
                 ELSE <<Out("[OK] Fixed Bottlenecks:")>>
                      \o Repeat(Out("bottleneck"), Cardinality(c.fixed_bottlenecks))
                      \o <<Out("blank")>>
        verdict == IF c.regression_detected
                   THEN <<Out("[!] REGRESSION DETECTED"), Out("rule")>>
                   ELSE <<Out("[OK] No significant performance regression"), Out("rule")>>
    IN  IF ~Formats(c.current_time) THEN [lines |-> head, failed |-> TRUE]
        ELSE IF ~Formats(c.current_calls)
        THEN [lines |-> head \o times, failed |-> TRUE]
        ELSE [lines |-> head \o times \o calls \o new \o fixed \o verdict,
              failed |-> FALSE]

\* The handlers of the compare branch: except FileNotFoundError, except Exception.
HandlerLine(e) ==
    IF IsFileNotFoundError(e) THEN Err("[X] Error") ELSE Err("[X] Unexpected error")

ExitOk == 0

ExitError == 1

\* Mutant of ExitRegression: the regression branch returns 0.
ExitRegressionSilent == ExitOk

ExitRegression == 1

\* main() with args.command == 'compare': ProfileScope() makes the report
\* directory (mkdir: whether that succeeds), then compare_reports, then the
\* printing and the return value.
main_compare(baseline, current, mkdir) ==
    IF ~mkdir
    THEN [raised |-> "OSError", comparison |-> NoComparison,
          exit_code |-> ExitError, printed |-> <<HandlerLine("OSError")>>]
    ELSE LET r == compare_reports(baseline, current)
         IN  IF r.raised # NoException
             THEN [raised |-> r.raised, comparison |-> NoComparison,
                   exit_code |-> ExitError, printed |-> <<HandlerLine(r.raised)>>]
             ELSE LET p == ComparisonLines(r.comparison)
                  IN  IF p.failed
                      THEN [raised |-> "ValueError", comparison |-> r.comparison,
                            exit_code |-> ExitError,
                            printed |-> p.lines \o <<HandlerLine("ValueError")>>]
                      ELSE [raised |-> NoException, comparison |-> r.comparison,
                            exit_code |-> IF r.comparison.regression_detected
                                          THEN ExitRegression ELSE ExitOk,
                            printed |-> p.lines]

NoExit == -1

CompareStart ==
    /\ cmp_pc = "start"
    /\ baseline_file = Absent
    /\ current_file = Absent
    /\ mkdir_ok = TRUE
    /\ raised = NoException
    /\ comparison = NoComparison
    /\ exit_code = NoExit
    /\ printed = << >>

\* profilescope compare <baseline> <current>
compare_command ==
    /\ cmp_pc = "start"
    /\ \E b \in ReportFiles, c \in ReportFiles, m \in BOOLEAN :
          LET out == main_compare(b, c, m)
          IN  /\ baseline_file' = b
              /\ current_file' = c
              /\ mkdir_ok' = m
              /\ raised' = out.raised
              /\ comparison' = out.comparison
              /\ exit_code' = out.exit_code
              /\ printed' = out.printed
    /\ cmp_pc' = "exited"
    /\ UNCHANGED <<parseVars, profileVars, saveVars, runVars, analyseVars, statsVars>>


\* ============================================================ stats parser
\*
\* Text.  A character is a symbol (a string; the column labels "ncalls" and
\* "tottime" and the word "unknown" are one symbol each), a token is a
\* non-empty sequence of symbols without white space, a line is the sequence
\* of its tokens, the profiler's output is a sequence of lines.  Times are in
\* thousandths of a second, which is what pstats prints ("%8.3f").

Min(S) == CHOOSE x \in S : \A y \in S : x <= y

Max(S) == CHOOSE x \in S : \A y \in S : x >= y

\* ch in s
Contains(s, ch) == \E i \in DOMAIN s : s[i] = ch

Positions(s, ch) == {i \in DOMAIN s : s[i] = ch}

\* s.split(ch)
RECURSIVE Split(_, _)
Split(s, ch) ==
    IF ~Contains(s, ch) THEN <<s>>
    ELSE LET i == Min(Positions(s, ch))
         IN  <<SubSeq(s, 1, i - 1)>> \o Split(SubSeq(s, i + 1, Len(s)), ch)

\* s.rsplit(ch, 1), for s holding ch
RSplit1(s, ch) ==
    LET i == Max(Positions(s, ch))
    IN  <<SubSeq(s, 1, i - 1), SubSeq(s, i + 1, Len(s))>>

\* s.rstrip(ch)
RECURSIVE RStrip(_, _)
RStrip(s, ch) ==
    IF s # << >> /\ s[Len(s)] = ch THEN RStrip(SubSeq(s, 1, Len(s) - 1), ch) ELSE s

Digits == {"0", "1", "2", "3", "4", "5", "6", "7", "8", "9"}

DigitValue(c) ==
    CASE c = "0" -> 0 [] c = "1" -> 1 [] c = "2" -> 2 [] c = "3" -> 3 [] c = "4" -> 4
      [] c = "5" -> 5 [] c = "6" -> 6 [] c = "7" -> 7 [] c = "8" -> 8 [] c = "9" -> 9

\* s.isdigit()
IsDigit(s) == s # << >> /\ \A i \in DOMAIN s : s[i] \in Digits

RECURSIVE DecimalValue(_)
DecimalValue(s) ==
    IF s = << >> THEN 0
    ELSE 10 * DecimalValue(SubSeq(s, 1, Len(s) - 1)) + DigitValue(s[Len(s)])

Signed(s) == s # << >> /\ s[1] \in {"-", "+"}

Unsigned(s) == IF Signed(s) THEN Tail(s) ELSE s

Sign(s) == IF s # << >> /\ s[1] = "-" THEN -1 ELSE 1

\* int(s): whether it returns (ValueError otherwise), and its value
IntOk(s) == IsDigit(Unsigned(s))

IntValue(s) == Sign(s) * DecimalValue(Unsigned(s))

\* float(s) for decimal notation: digits with at most one point and at least
\* one digit, an optional sign before them.  The value is in thousandths
\* (exact for up to three digits after the point, as pstats prints them).
FloatOk(s) ==
    LET u == Unsigned(s)
        parts == Split(u, ".")
    IN  /\ Len(parts) <= 2
        /\ \A i \in DOMAIN parts : parts[i] = << >> \/ IsDigit(parts[i])
        /\ \E i \in DOMAIN parts : parts[i] # << >>

RECURSIVE PadRight(_, _)
PadRight(s, n) == IF Len(s) >= n THEN s ELSE PadRight(s \o <<"0">>, n)

FloatValue(s) ==
    LET u == Unsigned(s)
        parts == Split(u, ".")
        frac == IF Len(parts) = 2 THEN PadRight(parts[2], 3) ELSE <<"0", "0", "0">>
    IN  Sign(s) * (1000 * DecimalValue(parts[1]) + DecimalValue(frac))

\* ' '.join(tokens)
RECURSIVE Join(_)
Join(tokens) ==
    IF tokens = << >> THEN << >>
    ELSE IF Len(tokens) = 1 THEN tokens[1]
    ELSE tokens[1] \o <<" ">> \o Join(Tail(tokens))

\* line.split(None, 5)
SplitLine(line) ==
    IF Len(line) <= 6 THEN line
    ELSE SubSeq(line, 1, 5) \o <<Join(SubSeq(line, 6, Len(line)))>>

\* 'ncalls' in line and 'tottime' in line
LineContains(line, sym) == \E i \in DOMAIN line : Contains(line[i], sym)

IsHeader(line) == LineContains(line, "ncalls") /\ LineContains(line, "tottime")

ZeroPerCall == <<"0", ".", "0", "0", "0">>

\* float(x) if x != '0.000' else 0.0
PerCallOk(tok) == tok = ZeroPerCall \/ FloatOk(tok)

PerCallValue(tok) == IF tok = ZeroPerCall THEN 0 ELSE FloatValue(tok)

\* The function info of a row (lines 217-230): name, filename, line_number.
FuncInfo(func_info) ==
    IF Contains(func_info, ":") /\ Contains(func_info, "(")
    THEN LET file_line == Split(func_info, "(")[1]
             func_name == RStrip(Split(func_info, "(")[2], ")")
         IN  IF Contains(file_line, ":")
             THEN LET fl == RSplit1(file_line, ":")
                  IN  [name |-> func_name, filename |-> fl[1],
                       line_number |-> IF IsDigit(fl[2]) THEN DecimalValue(fl[2]) ELSE 0]
             ELSE [name |-> func_name, filename |-> file_line, line_number |-> 0]
    ELSE [name |-> func_info, filename |-> <<"unknown">>, line_number |-> 0]

\* The call counts of a row (lines 233-239): whether they parse (ValueError
\* otherwise: from int(), or from unpacking a split that is not a pair).
NcallsOk(ncalls_str) ==
    IF Contains(ncalls_str, "/")
    THEN LET pt == Split(ncalls_str, "/")
         IN  Len(pt) = 2 /\ IntOk(pt[1]) /\ IntOk(pt[2])
    ELSE IntOk(ncalls_str)

\* Mutant of PrimitiveCalls: the part after the slash.
CallsAfterSlash(ncalls_str) ==
    IF Contains(ncalls_str, "/")
    THEN IntValue(Split(ncalls_str, "/")[2])
    ELSE IntValue(ncalls_str)

\* primitive, total = ncalls_str.split('/')
PrimitiveCalls(ncalls_str) ==
    IF Contains(ncalls_str, "/")
    THEN IntValue(Split(ncalls_str, "/")[1])
    ELSE IntValue(ncalls_str)

TotalCalls(ncalls_str) ==
    IF Contains(ncalls_str, "/")
    THEN IntValue(Split(ncalls_str, "/")[2])
    ELSE IntValue(ncalls_str)

\* percentage = (cumtime / total_time * 100) if total_time > 0 else 0.0
Percentage(cumtime, total_time) ==
    IF total_time > 0 THEN Frac(cumtime * 100, total_time) ELSE Zero

\* Whether the try block of a row (lines 208-256) reaches the append.
RowOk(parts) ==
    /\ FloatOk(parts[2])
    /\ PerCallOk(parts[3])
    /\ FloatOk(parts[4])
    /\ PerCallOk(parts[5])
    /\ NcallsOk(parts[1])

FunctionStats(parts, total_time) ==
    LET info == FuncInfo(parts[6])
    IN  [name |-> info.name,
         filename |-> info.filename,
         line_number |-> info.line_number,
         total_calls |-> TotalCalls(parts[1]),
         primitive_calls |-> PrimitiveCalls(parts[1]),
         total_time |-> FloatValue(parts[2]),
         cumulative_time |-> FloatValue(parts[4]),
         time_per_call |-> PerCallValue(parts[3]),
         cumulative_per_call |-> PerCallValue(parts[5]),
         percentage |-> Percentage(FloatValue(parts[4]), total_time)]

\* The loop over the lines (195-259): parsing_stats is the flag, hot_functions
\* the list built so far.
RECURSIVE ParseLines(_, _, _, _)
ParseLines(lines, parsing_stats, acc, total_time) ==
    IF lines = << >> THEN acc
    ELSE LET line == Head(lines)
             parts == SplitLine(line)
         IN  IF IsHeader(line) THEN ParseLines(Tail(lines), TRUE, acc, total_time)
             ELSE IF ~parsing_stats
             THEN ParseLines(Tail(lines), parsing_stats, acc, total_time)
             ELSE IF Len(parts) < 6
             THEN ParseLines(Tail(lines), parsing_stats, acc, total_time)
             ELSE IF ~RowOk(parts)
             THEN ParseLines(Tail(lines), parsing_stats, acc, total_time)
             ELSE ParseLines(Tail(lines), parsing_stats,
                             Append(acc, FunctionStats(parts, total_time)), total_time)

\* Mutant of _extract_hot_functions: rows are parsed from the first line on.
ExtractFromFirstLine(text, total_time) == ParseLines(text, TRUE, << >>, total_time)

\* _extract_hot_functions on the text print_stats wrote
_extract_hot_functions(text, total_time) == ParseLines(text, FALSE, << >>, total_time)


\* ================================================================ analyzer

\* hot_functions[:n]
Take(seq, n) == SubSeq(seq, 1, IF Len(seq) < n THEN Len(seq) ELSE n)

\* "{x:.1f}" of a fraction: its value in tenths, rounded half to even.
Tenths(f) ==
    LET q == (f[1] * 10) \div f[2]
        r == (f[1] * 10) % f[2]
    IN  IF 2 * r > f[2] THEN q + 1
        ELSE IF 2 * r < f[2] THEN q
        ELSE IF q % 2 = 0 THEN q ELSE q + 1

\* for func in hot_functions[:10]: if func.percentage > 10.0
TopDisplayed == 10

BottleneckPercent == 10

RECURSIVE Bottlenecks(_)
Bottlenecks(funcs) ==
    IF funcs = << >> THEN << >>
    ELSE LET func == Head(funcs)
         IN  (IF FracGT(func.percentage, BottleneckPercent)
              THEN <<Bottleneck(func.name, Tenths(func.percentage))>>
              ELSE << >>) \o Bottlenecks(Tail(funcs))

\* Mutant of _identify_bottlenecks: the loop runs over the whole list.
BottlenecksOfAll(funcs) == Bottlenecks(funcs)

_identify_bottlenecks(funcs) == Bottlenecks(Take(funcs, TopDisplayed))

\* _extract_call_tree: the totals pstats holds
_extract_call_tree(stats) ==
    [total_calls |-> stats.total_calls,
     primitive_calls |-> stats.prim_calls,
     total_functions |-> stats.total_functions]

TopRecommended == 5

HighCallCount == 10000

\* cumulative_time > total_time * 0.2, as 5 * cumulative_time > total_time
HotPathInverseShare == 5

RECURSIVE HighCallRecommendations(_)
HighCallRecommendations(funcs) ==
    IF funcs = << >> THEN << >>
    ELSE LET func == Head(funcs)
         IN  (IF func.total_calls > HighCallCount
              THEN <<[rule |-> "Consider optimizing", name |-> func.name,
                      total_calls |-> func.total_calls]>>
              ELSE << >>) \o HighCallRecommendations(Tail(funcs))

RECURSIVE HotPathRecommendations(_, _)
HotPathRecommendations(funcs, total_time) ==
    IF funcs = << >> THEN << >>
    ELSE LET func == Head(funcs)
         IN  (IF func.cumulative_time * HotPathInverseShare > total_time
              THEN <<[rule |-> "Hot path detected", name |-> func.name,
                      cumulative_time |-> func.cumulative_time,
                      percent |-> Tenths(func.percentage)]>>
              ELSE << >>) \o HotPathRecommendations(Tail(funcs), total_time)

RECURSIVE RecursionRecommendations(_)
RecursionRecommendations(funcs) ==
    IF funcs = << >> THEN << >>
    ELSE LET func == Head(funcs)
         IN  (IF func.primitive_calls < func.total_calls
              THEN <<[rule |-> "Recursive function", name |-> func.name,
                      total_calls |-> func.total_calls,
                      primitive_calls |-> func.primitive_calls]>>
              ELSE << >>) \o RecursionRecommendations(Tail(funcs))

LooksGood == <<[rule |-> "Performance looks good! No major bottlenecks detected."]>>

NoIssues == <<[rule |-> "No significant performance issues detected."]>>

\* Mutants of _generate_recommendations: the recursion loop comes first; the
\* early return for an empty list is missing; the fallback entry is missing.
RecommendationsRecursionFirst(funcs, total_time) ==
    IF funcs = << >> THEN NoIssues
    ELSE LET recommendations ==
                 RecursionRecommendations(Take(funcs, TopDisplayed))
                 \o HighCallRecommendations(Take(funcs, TopRecommended))
                 \o HotPathRecommendations(Take(funcs, TopRecommended), total_time)
         IN  IF recommendations = << >> THEN LooksGood ELSE recommendations

RecommendationsNoEarlyReturn(funcs, total_time) ==
    LET recommendations ==
            HighCallRecommendations(Take(funcs, TopRecommended))
            \o HotPathRecommendations(Take(funcs, TopRecommended), total_time)
            \o RecursionRecommendations(Take(funcs, TopDisplayed))
    IN  IF recommendations = << >> THEN LooksGood ELSE recommendations

RecommendationsNoFallback(funcs, total_time) ==
    IF funcs = << >> THEN NoIssues
    ELSE HighCallRecommendations(Take(funcs, TopRecommended))
         \o HotPathRecommendations(Take(funcs, TopRecommended), total_time)
         \o RecursionRecommendations(Take(funcs, TopDisplayed))

_generate_recommendations(funcs, total_time) ==
    IF funcs = << >>
    THEN <<[rule |-> "No significant performance issues detected."]>>
    ELSE LET recommendations ==
                 HighCallRecommendations(Take(funcs, TopRecommended))
                 \o HotPathRecommendations(Take(funcs, TopRecommended), total_time)
                 \o RecursionRecommendations(Take(funcs, TopDisplayed))
         IN  IF recommendations = << >>
             THEN <<[rule |-> "Performance looks good! No major bottlenecks detected."]>>
             ELSE recommendations

\* The report profile() builds (lines 148-169) from the loaded stats: the
\* text print_stats writes for them, their totals, the measured time and the
\* clock.
ProfileReport(script, total_time, stats, now) ==
    LET funcs == _extract_hot_functions(stats.text, total_time)
    IN  [script_path |-> script,
         total_time |-> total_time,
         total_calls |-> stats.total_calls,
         hot_functions |-> funcs,
         bottlenecks |-> _identify_bottlenecks(funcs),
         call_tree |-> _extract_call_tree(stats),
         recommendations |-> _generate_recommendations(funcs, total_time),
         timestamp |-> now]


\* ============================================================= save_report

\* A script path: its directory and the stem and suffix of its name.
ScriptPath(dir, stem) == [dir |-> dir, stem |-> stem, suffix |-> ".py"]

\* Path(report.script_path).stem and .name
Stem(script) == script.stem

Name(script) == <<script.stem, script.suffix>>

\* f"{script_name}_{timestamp}.json": time.strftime("%Y%m%d_%H%M%S") has the
\* resolution of one second, `now` is the clock in seconds.
ReportFilename(report, now, ext) ==
    [stem |-> Stem(report.script_path), timestamp |-> now, ext |-> ext]

Line(text, data) == [text |-> text, data |-> data]

RECURSIVE MapRows(_, _)
MapRows(funcs, tag) ==
    IF funcs = << >> THEN << >>
    ELSE LET func == Head(funcs)
         IN  <<Line(tag, <<func.name, func.cumulative_time, func.total_calls,
                           Tenths(func.percentage)>>)>> \o MapRows(Tail(funcs), tag)

RECURSIVE MapItems(_, _, _)
MapItems(items, tag, i) ==
    IF items = << >> THEN << >>
    ELSE <<Line(tag, <<i, Head(items)>>)>> \o MapItems(Tail(items), tag, i + 1)

\* A JSON string and a JSON object in a file
Str(x) == [t |-> "str", v |-> x]

JObject(fields) == [t |-> "object", v |-> fields]

\* asdict(f) of a FunctionStats
AsDict(f) ==
    [name |-> f.name,
     filename |-> f.filename,
     line_number |-> f.line_number,
     total_calls |-> f.total_calls,
     primitive_calls |-> f.primitive_calls,
     total_time |-> f.total_time,
     cumulative_time |-> f.cumulative_time,
     time_per_call |-> f.time_per_call,
     cumulative_per_call |-> f.cumulative_per_call,
     percentage |-> f.percentage]

\* Mutant of ReportDict: the list cut to the displayed rows.
ReportDictTopDisplayed(report) ==
    [script_path |-> report.script_path,
     total_time |-> report.total_time,
     total_calls |-> report.total_calls,
     hot_functions |-> [i \in DOMAIN Take(report.hot_functions, TopDisplayed) |->
                           AsDict(report.hot_functions[i])],
     bottlenecks |-> report.bottlenecks,
     call_tree |-> report.call_tree,
     recommendations |-> report.recommendations,
     timestamp |-> report.timestamp]

\* report_dict (lines 397-406)
ReportDict(report) ==
    [script_path |-> report.script_path,
     total_time |-> report.total_time,
     total_calls |-> report.total_calls,
     hot_functions |-> [i \in DOMAIN report.hot_functions |->
                           AsDict(report.hot_functions[i])],
     bottlenecks |-> report.bottlenecks,
     call_tree |-> report.call_tree,
     recommendations |-> report.recommendations,
     timestamp |-> report.timestamp]

\* The JSON text of a list of strings, and of a FunctionStats dict
DumpStrings(items) == List([i \in DOMAIN items |-> Str(items[i])])

DumpFunction(d) ==
    JObject([name |-> Str(d.name),
             filename |-> Str(d.filename),
             line_number |-> Num(d.line_number),
             total_calls |-> Num(d.total_calls),
             primitive_calls |-> Num(d.primitive_calls),
             total_time |-> Num(d.total_time),
             cumulative_time |-> Num(d.cumulative_time),
             time_per_call |-> Num(d.time_per_call),
             cumulative_per_call |-> Num(d.cumulative_per_call),
             percentage |-> Num(d.percentage)])

\* json.dump(report_dict, f, indent=2): every value as the JSON literal of
\* its type
json_dump(d) ==
    JObject([script_path |-> Str(d.script_path),
             total_time |-> Num(d.total_time),
             total_calls |-> Num(d.total_calls),
             hot_functions |-> List([i \in DOMAIN d.hot_functions |->
                                        DumpFunction(d.hot_functions[i])]),
             bottlenecks |-> DumpStrings(d.bottlenecks),
             call_tree |-> JObject([total_calls |-> Num(d.call_tree.total_calls),
                                    primitive_calls |-> Num(d.call_tree.primitive_calls),
                                    total_functions |-> Num(d.call_tree.total_functions)]),
             recommendations |-> DumpStrings(d.recommendations),
             timestamp |-> Str(d.timestamp)])

\* json.load(f): the Python value of a JSON value
RECURSIVE json_load(_)
json_load(j) ==
    CASE j.t = "str" -> j.v
      [] j.t = "num" -> j.v
      [] j.t = "list" -> [i \in DOMAIN j.v |-> json_load(j.v[i])]
      [] j.t = "object" -> [k \in DOMAIN j.v |-> json_load(j.v[k])]

\* What the json branch writes (lines 397-409).
JsonReport(report) == [format |-> "json", text |-> json_dump(ReportDict(report))]

\* The lines the markdown branch writes (lines 415-438).
MarkdownReport(report) ==
    [format |-> "markdown",
     lines |->
        <<Line("# Performance Report:", <<Name(report.script_path)>>),
          Line("**Total Time:**", <<report.total_time>>),
          Line("**Total Calls:**", <<report.total_calls>>),
          Line("**Timestamp:**", <<report.timestamp>>),
          Line("## Hot Functions", << >>),
          Line("| Function | Time (s) | Calls | % |", << >>),
          Line("|----------|----------|-------|---|", << >>)>>
        \o MapRows(Take(report.hot_functions, TopDisplayed), "| row |")
        \o <<Line("", << >>)>>
        \o (IF report.bottlenecks # << >>
            THEN <<Line("## Bottlenecks", << >>)>>
                 \o MapItems(report.bottlenecks, "- item", 1) \o <<Line("", << >>)>>
            ELSE << >>)
        \o (IF report.recommendations # << >>
            THEN <<Line("## Recommendations", << >>)>>
                 \o MapItems(report.recommendations, "1. item", 1) \o <<Line("", << >>)>>
            ELSE << >>)]

\* What the html branch writes (lines 444-471).
HtmlReport(report) ==
    [format |-> "html",
     lines |->
        <<Line("<html><head>", << >>),
          Line("<h1>Performance Report:", <<Name(report.script_path)>>),
          Line("<p>Total Time:", <<report.total_time>>),
          Line("<p>Total Calls:", <<report.total_calls>>),
          Line("<p>Timestamp:", <<report.timestamp>>),
          Line("<h2>Hot Functions</h2>", << >>),
          Line("<table><tr><th>", << >>)>>
        \o MapRows(Take(report.hot_functions, TopDisplayed), "<tr><td>")
        \o <<Line("</table>", << >>)>>
        \o (IF report.bottlenecks # << >>
            THEN <<Line("<h2>Bottlenecks</h2><ul>", << >>)>>
                 \o MapItems(report.bottlenecks, "<li>", 1) \o <<Line("</ul>", << >>)>>
            ELSE << >>)
        \o (IF report.recommendations # << >>
            THEN <<Line("<h2>Recommendations</h2><ol>", << >>)>>
                 \o MapItems(report.recommendations, "<li>", 1) \o <<Line("</ol>", << >>)>>
            ELSE << >>)
        \o <<Line("</body></html>", << >>)>>]

SaveFormats == {"json", "markdown", "html"}

Extension(format) ==
    CASE format = "json" -> ".json"
      [] format = "markdown" -> ".md"
      [] format = "html" -> ".html"

Rendering(report, format) ==
    CASE format = "json" -> JsonReport(report)
      [] format = "markdown" -> MarkdownReport(report)
      [] format = "html" -> HtmlReport(report)

\* open(filepath, 'w') and the writes: the file is created, or truncated and
\* written again if the path exists; every other file stays as it is.
WriteFile(dir, path, content) ==
    [f \in DOMAIN dir \cup {path} |-> IF f = path THEN content ELSE dir[f]]

\* Mutant of save_report: a format it does not know is written as JSON.
save_report_any_format(dir, report, format, now) ==
    LET known == IF format \in SaveFormats THEN format ELSE "json"
        filepath == ReportFilename(report, now, Extension(known))
    IN  [files |-> WriteFile(dir, filepath, Rendering(report, known)),
         raised |-> NoException,
         path |-> filepath]

\* save_report(report, format) at clock `now` on the report directory
\* `dir`: the directory afterwards, and the path returned or ValueError.
save_report(dir, report, format, now) ==
    IF format \in SaveFormats
    THEN LET filepath == ReportFilename(report, now, Extension(format))
         IN  [files |-> WriteFile(dir, filepath, Rendering(report, format)),
              raised |-> NoException,
              path |-> filepath]
    ELSE [files |-> dir, raised |-> "ValueError", path |-> [stem |-> "none"]]


\* ---------------------------------------------------------- parser inputs

\* Rows per text after its prefix.
MaxRows == 2

T000 == <<"0", ".", "0", "0", "0">>

T001 == <<"0", ".", "0", "0", "1">>

T002 == <<"0", ".", "0", "0", "2">>

T500 == <<"0", ".", "5", "0", "0">>

Junk == <<"x">>

\* "a.py:12(f)"
FuncF == <<"a.py", ":", "1", "2", "(", "f", ")">>

NcallsSamples ==
    {<<"3">>, <<"1", "2">>, <<"3", "/", "1">>, <<"1", "/", "3">>,
     <<"3", "/">>, <<"3", "/", "1", "/", "1">>, Junk, <<"3", "/", "x">>}

\* "a.py:3(ncalls_tottime)": a function whose name holds both column labels
FuncLabels == <<"a.py", ":", "3", "(", "ncalls", "_", "tottime", ")">>

\* Function infos, each the tokens it is made of: file:line(name), no colon,
\* no parentheses, several words, a line that is no number, a colon only
\* inside the parentheses, a path with a colon of its own, a name made of
\* the column labels.
FuncSamples ==
    {<<FuncF>>,
     <<<<"a.py", "(", "f", ")">>>>,
     <<<<"f">>>>,
     <<<<"{", "built-in">>, <<"method">>, <<"exec", "}">>>>,
     <<<<"a.py", ":", "x", "(", "f", ")">>>>,
     <<<<"f", "(", "g", ":", "1", ")">>>>,
     <<<<"C", ":", "a.py", ":", "7", "(", "g", ")">>>>,
     <<FuncLabels>>}

Row(ncalls, tottime, percall, cumtime, cumpercall, func) ==
    <<ncalls, tottime, percall, cumtime, cumpercall>> \o func

HeaderLine ==
    <<<<"ncalls">>, <<"tottime">>, <<"percall">>, <<"cumtime">>, <<"percall">>,
      <<"filename", ":", "lineno", "(", "function", ")">>>>

TitleLine == <<<<"3">>, <<"function">>, <<"calls">>, <<"in">>, T002, <<"seconds">>>>

BlankLine == << >>

GoodRow == Row(<<"3">>, T001, T000, T002, T001, <<FuncF>>)

Rows ==
    {Row(n, T001, T000, T002, T001, <<FuncF>>) : n \in NcallsSamples}
    \cup {Row(<<"3">>, T001, T000, c, T000, <<FuncF>>) : c \in {T500, T000, Junk, <<"2">>}}
    \cup {Row(<<"3">>, Junk, T000, T002, T000, <<FuncF>>),
          Row(<<"3">>, T001, Junk, T002, T000, <<FuncF>>)}
    \cup {Row(<<"2">>, T001, T000, T002, T001, f) : f \in FuncSamples}
    \cup {<<<<"3">>, T001, T000, T002, T001>>, BlankLine, HeaderLine}

\* What precedes the rows: nothing, the lines print_stats writes down to
\* the header, a row before the header, a row and no header (the header is
\* one of the rows as well).
Prefixes ==
    {<< >>, <<TitleLine, BlankLine, HeaderLine>>, <<GoodRow, HeaderLine>>,
     <<GoodRow>>}

RECURSIVE SeqsUpTo(_, _)
SeqsUpTo(S, n) ==
    IF n = 0 THEN {<< >>}
    ELSE LET shorter == SeqsUpTo(S, n - 1)
         IN  shorter \cup {Append(q, x) : q \in shorter, x \in S}

Outputs == {pre \o body : pre \in Prefixes, body \in SeqsUpTo(Rows, MaxRows)}

\* time.time() differences, in thousandths of a second
RunTimes == {0, 20}

ParseStart ==
    /\ parse_pc = "start"
    /\ output = << >>
    /\ run_total_time = 0
    /\ hot_functions = << >>

\* hot_functions = self._extract_hot_functions(stats, total_time)
extract_hot_functions ==
    /\ parse_pc = "start"
    /\ \E text \in Outputs, total_time \in RunTimes :
          /\ output' = text
          /\ run_total_time' = total_time
          /\ hot_functions' = _extract_hot_functions(text, total_time)
    /\ parse_pc' = "parsed"
    /\ UNCHANGED <<cmpVars, profileVars, saveVars, runVars, analyseVars, statsVars>>

\* ================================================== the session: profile()

\* profile() calls and save_report() calls per session, and the last second
\* of the clock.
MaxProfiles == 2

MaxSaves == 2

MaxClock == 1

\* A script on disk, and a path that holds none.
ExistingScripts == {ScriptPath("work", "a")}

ScriptPaths == ExistingScripts \cup {ScriptPath("work", "nonexistent")}

ArgLists == {<< >>, <<"arg1", "arg2">>}

\* sys.argv: its first entry, a path, and the rest
Argv(argv0, rest) == [argv0 |-> argv0, rest |-> rest]

\* sys.argv of the process that calls profile()
CallerArgv == Argv(ScriptPath("bin", "profilescope"), <<"run">>)

\* What the profiler holds after a subject that ran to its end: the text
\* print_stats writes for it, its totals, and the time measured around the
\* run (thousandths of a second).
Runs ==
    {[text |-> <<TitleLine, BlankLine, HeaderLine,
                 Row(<<"3", "/", "1">>, T001, T000, T002, T001, <<FuncF>>)>>,
      total_time |-> 4, total_calls |-> 3, prim_calls |-> 1, total_functions |-> 1],
     [text |-> <<TitleLine, BlankLine, HeaderLine, GoodRow,
                 Row(<<"1">>, T000, T000, T000, T000,
                     <<<<"{", "built-in">>, <<"method">>, <<"exec", "}">>>>)>>,
      total_time |-> 20, total_calls |-> 4, prim_calls |-> 4, total_functions |-> 2]}

NoRun == [text |-> << >>, total_time |-> 0, total_calls |-> 0, prim_calls |-> 0,
          total_functions |-> 0]

NoReport == [script_path |-> ScriptPath("", "")]

NoTmp == 0

NoPath == [stem |-> "none"]

EmptyDir == [f \in {} |-> NoReport]

\* How the subject can end: it runs to its end; open, compile or the script
\* itself raises an Exception; the script raises a BaseException that is no
\* Exception (sys.exit(), KeyboardInterrupt).
SubjectEndings == {"completed", "Exception", "SystemExit"}

\* Mutant of SubjectFault: the handler swallows the exception.
SubjectFaultSwallowed(ending) ==
    IF ending = "SystemExit" THEN "SystemExit" ELSE NoException

\* try: runcall(...) except Exception as e: raise RuntimeError(...):
\* the exception in flight after the inner try statement
SubjectFault(ending) ==
    CASE ending = "completed" -> NoException
      [] ending = "Exception" -> "RuntimeError"
      [] ending = "SystemExit" -> "SystemExit"

\* Mutant of Unlink: the temporary file is removed after the return
\* statement's work only, not in a finally clause.
UnlinkOnSuccess(tmps, path, exc) == IF exc = NoException THEN tmps \ {path} ELSE tmps

\* finally: Path(tmp_path).unlink(missing_ok=True)
Unlink(tmps, path, exc) == tmps \ {path}

NoResult == [status |-> "none", exception |-> NoException, report |-> NoReport]

Returned(report) == [status |-> "returned", exception |-> NoException, report |-> report]

Raised(e) == [status |-> "raised", exception |-> e, report |-> NoReport]

SessionStart ==
    /\ pc = "idle"
    /\ script_path = ScriptPath("", "")
    /\ script_args = << >>
    /\ old_argv = CallerArgv
    /\ tmp_path = NoTmp
    /\ run = NoRun
    /\ subject = "not started"
    /\ pending = NoException
    /\ profile_result = NoResult
    /\ sys_argv = CallerArgv
    /\ tmp_files = {}
    /\ profiles = 0
    /\ clock = 0
    /\ held_report = NoReport
    /\ files = EmptyDir
    /\ save_result = [raised |-> NoException, path |-> NoPath]
    /\ saves = 0

\* profile(script_path, script_args) on a path that does not exist
\* (lines 109-110)
profile_not_found ==
    /\ pc = "idle"
    /\ profiles < MaxProfiles
    /\ \E script \in ScriptPaths \ ExistingScripts : script_path' = script
    /\ script_args' = << >>
    /\ profiles' = profiles + 1
    /\ tmp_path' = NoTmp
    /\ run' = NoRun
    /\ subject' = "not started"
    /\ pending' = NoException
    /\ profile_result' = Raised("FileNotFoundError")
    /\ UNCHANGED <<pc, old_argv, sys_argv, tmp_files>>
    /\ UNCHANGED <<cmpVars, parseVars, saveVars, runVars, analyseVars, statsVars>>

\* profile() up to the temporary file (lines 109-116)
profile_begin ==
    /\ pc = "idle"
    /\ profiles < MaxProfiles
    /\ \E script \in ExistingScripts, args \in ArgLists :
          /\ script_path' = script
          /\ script_args' = args
    /\ profiles' = profiles + 1
    /\ tmp_path' = profiles + 1
    /\ tmp_files' = tmp_files \cup {profiles + 1}
    /\ run' = NoRun
    /\ subject' = "not started"
    /\ pending' = NoException
    /\ profile_result' = NoResult
    /\ pc' = "tmp created"
    /\ UNCHANGED <<old_argv, sys_argv>>
    /\ UNCHANGED <<cmpVars, parseVars, saveVars, runVars, analyseVars, statsVars>>

\* old_argv = sys.argv; sys.argv = [str(script_path)] + script_args, and the
\* subject starts (lines 120-132)
start_subject ==
    /\ pc = "tmp created"
    /\ old_argv' = sys_argv
    /\ sys_argv' = Argv(script_path, script_args)
    /\ subject' = "running"
    /\ pc' = "running"
    /\ UNCHANGED <<script_path, script_args, tmp_path, run, pending, profile_result,
                   tmp_files, profiles>>
    /\ UNCHANGED <<cmpVars, parseVars, saveVars, runVars, analyseVars, statsVars>>

\* The subject ends, having left sys.argv alone or set it (lines 128-134)
subject_ends ==
    /\ pc = "running"
    /\ \E ending \in SubjectEndings :
          /\ subject' = ending
          /\ pending' = SubjectFault(ending)
          /\ \E r \in (IF ending = "completed" THEN Runs ELSE {NoRun}) : run' = r
    /\ \E argv \in {sys_argv, Argv(script_path, <<"set by the subject">>)} :
          sys_argv' = argv
    /\ pc' = "subject ended"
    /\ UNCHANGED <<script_path, script_args, old_argv, tmp_path, profile_result,
                   tmp_files, profiles>>
    /\ UNCHANGED <<cmpVars, parseVars, saveVars, runVars, analyseVars, statsVars>>

\* Mutant of RestoreArgv: the assignment placed after the try statement
\* instead of in its finally clause.
RestoreArgvOnSuccess(argv, saved, exc) == IF exc = NoException THEN saved ELSE argv

\* finally: sys.argv = old_argv, whatever the try block raised
RestoreArgv(argv, saved, exc) == saved

\* The finally clause of the inner try (lines 135-136)
restore_argv ==
    /\ pc = "subject ended"
    /\ sys_argv' = RestoreArgv(sys_argv, old_argv, pending)
    /\ pc' = IF pending = NoException THEN "timed" ELSE "unwinding"
    /\ UNCHANGED <<script_path, script_args, old_argv, tmp_path, run, subject,
                   pending, profile_result, tmp_files, profiles>>
    /\ UNCHANGED <<cmpVars, parseVars, saveVars, runVars, analyseVars, statsVars>>

\* profiler.dump_stats(tmp_path): written, or an OSError (line 142)
dump_stats ==
    /\ pc = "timed"
    /\ \/ /\ tmp_files' = tmp_files \cup {tmp_path}
          /\ pc' = "dumped"
          /\ UNCHANGED pending
       \/ /\ pending' = "OSError"
          /\ pc' = "unwinding"
          /\ UNCHANGED tmp_files
    /\ UNCHANGED <<script_path, script_args, old_argv, tmp_path, run, subject,
                   profile_result, sys_argv, profiles>>
    /\ UNCHANGED <<cmpVars, parseVars, saveVars, runVars, analyseVars, statsVars>>

\* stats = pstats.Stats(tmp_path): loaded, or an exception (line 145)
load_stats ==
    /\ pc = "dumped"
    /\ \/ /\ pc' = "loaded"
          /\ UNCHANGED pending
       \/ /\ pending' = "ValueError"
          /\ pc' = "unwinding"
    /\ UNCHANGED <<script_path, script_args, old_argv, tmp_path, run, subject,
                   profile_result, sys_argv, tmp_files, profiles>>
    /\ UNCHANGED <<cmpVars, parseVars, saveVars, runVars, analyseVars, statsVars>>

\* The parse, the analysis and the report (lines 148-171), or an exception
\* on the way
analyse ==
    /\ pc = "loaded"
    /\ \/ /\ pc' = "returning"
          /\ UNCHANGED pending
       \/ /\ pending' = "TypeError"
          /\ pc' = "unwinding"
    /\ UNCHANGED <<script_path, script_args, old_argv, tmp_path, run, subject,
                   profile_result, sys_argv, tmp_files, profiles>>
    /\ UNCHANGED <<cmpVars, parseVars, saveVars, runVars, analyseVars, statsVars>>

\* finally: the temporary file is unlinked, and profile() returns its report
\* or raises the exception in flight (lines 171-175); the locals of the call
\* are gone with its frame
cleanup ==
    /\ pc \in {"returning", "unwinding"}
    /\ tmp_files' = Unlink(tmp_files, tmp_path, pending)
    /\ IF pending = NoException
       THEN LET report == ProfileReport(script_path, run.total_time, run, clock)
            IN  /\ profile_result' = Returned(report)
                /\ held_report' = report
       ELSE /\ profile_result' = Raised(pending)
            /\ UNCHANGED held_report
    /\ script_args' = << >>
    /\ old_argv' = CallerArgv
    /\ tmp_path' = NoTmp
    /\ run' = NoRun
    /\ pending' = NoException
    /\ pc' = "idle"
    /\ UNCHANGED <<script_path, subject, sys_argv, profiles>>
    /\ UNCHANGED <<clock, files, save_result, saves>>
    /\ UNCHANGED <<cmpVars, parseVars, runVars, analyseVars, statsVars>>

\* save_report(report, format) with a report profile() returned
save_report_call ==
    /\ pc = "idle"
    /\ saves < MaxSaves
    /\ held_report # NoReport
    /\ \E format \in SaveFormats \cup {"xml"} :
          LET out == save_report(files, held_report, format, clock)
          IN  /\ files' = out.files
              /\ save_result' = [raised |-> out.raised, path |-> out.path]
    /\ saves' = saves + 1
    /\ UNCHANGED <<clock, held_report>>
    /\ UNCHANGED <<cmpVars, parseVars, profileVars, runVars, analyseVars, statsVars>>

\* A second passes.
tick ==
    /\ pc = "idle"
    /\ clock < MaxClock
    /\ clock' = clock + 1
    /\ UNCHANGED <<held_report, files, save_result, saves>>
    /\ UNCHANGED <<cmpVars, parseVars, profileVars, runVars, analyseVars, statsVars>>


\* --------------------------------------------------- main: the run command

\* name = func.name[:38] if len(func.name) > 38 else func.name
NameWidth == 38

RECURSIVE TerminalRows(_)
TerminalRows(funcs) ==
    IF funcs = << >> THEN << >>
    ELSE LET func == Head(funcs)
         IN  <<Line("row", <<Take(func.name, NameWidth), func.cumulative_time,
                             func.total_calls, Tenths(func.percentage)>>)>>
             \o TerminalRows(Tail(funcs))

\* format_terminal_report(report, show_tree): the lines it joins
TerminalReport(report, show_tree) ==
    <<Line("rule", << >>),
      Line("PROFILESCOPE PERFORMANCE REPORT", << >>),
      Line("rule", << >>),
      Line("Script:", <<report.script_path>>),
      Line("Total Time:", <<report.total_time>>),
      Line("Total Calls:", <<report.total_calls>>),
      Line("Timestamp:", <<report.timestamp>>),
      Line("rule", << >>),
      Line("", << >>)>>
    \o (IF report.hot_functions # << >>
        THEN <<Line("[HOT FUNCTIONS - Top 10 by Cumulative Time]", << >>),
               Line("dashes", << >>),
               Line("Function Time (s) Calls %", << >>),
               Line("dashes", << >>)>>
             \o TerminalRows(Take(report.hot_functions, TopDisplayed))
             \o <<Line("", << >>)>>
        ELSE << >>)
    \o (IF report.bottlenecks # << >>
        THEN <<Line("[BOTTLENECKS DETECTED]", << >>), Line("dashes", << >>)>>
             \o MapItems(report.bottlenecks, "[!]", 1) \o <<Line("", << >>)>>
        ELSE << >>)
    \o (IF report.recommendations # << >>
        THEN <<Line("[OPTIMIZATION RECOMMENDATIONS]", << >>), Line("dashes", << >>)>>
             \o MapItems(report.recommendations, "1.", 1) \o <<Line("", << >>)>>
        ELSE << >>)
    \o (IF show_tree
        THEN <<Line("[CALL TREE SUMMARY]", << >>),
               Line("dashes", << >>),
               Line("Total Functions:", <<report.call_tree.total_functions>>),
               Line("Primitive Calls:", <<report.call_tree.primitive_calls>>),
               Line("Total Calls:", <<report.call_tree.total_calls>>),
               Line("", << >>)>>
        ELSE << >>)
    \o <<Line("rule", << >>)>>

\* --format choices of the run parser
RunFormats == {"terminal", "json", "markdown", "html"}

\* The status a subject passes to sys.exit()
SubjectExitStatuses == {0, 3}

\* Where profile() can fail after a subject that ran to its end: nowhere,
\* in dump_stats, in pstats.Stats, in the analysis.
ProfileFaults == {"none", "dump", "load", "analyse"}

FaultException(fault) ==
    CASE fault = "none" -> NoException
      [] fault = "dump" -> "OSError"
      [] fault = "load" -> "ValueError"
      [] fault = "analyse" -> "TypeError"

\* profile(script, args) as one call: what it raises or returns
profile_call(script, ending, fault, stats, now) ==
    IF script \notin ExistingScripts THEN Raised("FileNotFoundError")
    ELSE IF SubjectFault(ending) # NoException THEN Raised(SubjectFault(ending))
    ELSE IF FaultException(fault) # NoException THEN Raised(FaultException(fault))
    ELSE Returned(ProfileReport(script, stats.total_time, stats, now))

\* print(terminal_report) and print(f"\n[OK] Report saved: {report_path}")
OutReport(lines) == [stream |-> "stdout", text |-> "report", lines |-> lines]

OutSaved(path) == [stream |-> "stdout", text |-> "[OK] Report saved", path |-> path]

\* The handlers of the run branch: except FileNotFoundError, except
\* RuntimeError, except Exception.
RunHandlerLine(e) ==
    IF IsFileNotFoundError(e) \/ IsRuntimeError(e)
    THEN Err("[X] Error") ELSE Err("[X] Unexpected error")

\* return 0 of the run branch (line 599)
RunExitOk == ExitOk

\* main() with args.command == 'run', under sys.exit(main()): the exit
\* status of the process, what was printed and the report directory.  An
\* exception that is no Exception passes the handlers and main; for a
\* SystemExit the process exits with its status.
main_run(a) ==
    IF ~a.mkdir
    THEN [raised |-> "OSError", exit_code |-> ExitError,
          printed |-> <<RunHandlerLine("OSError")>>, files |-> a.dir]
    ELSE LET start == <<Out("[ProfileScope] Profiling")>>
             r == profile_call(a.script, a.ending, a.fault, a.stats, a.now)
         IN  IF r.status = "raised"
             THEN IF IsException(r.exception)
                  THEN [raised |-> r.exception, exit_code |-> ExitError,
                        printed |-> start \o <<RunHandlerLine(r.exception)>>,
                        files |-> a.dir]
                  ELSE [raised |-> r.exception, exit_code |-> a.status,
                        printed |-> start, files |-> a.dir]
             ELSE IF a.format = "terminal"
             THEN [raised |-> NoException, exit_code |-> RunExitOk,
                   printed |-> start
                               \o <<OutReport(TerminalReport(r.report, a.tree)),
                                    Out("[OK] Profiling complete")>>,
                   files |-> a.dir]
             ELSE LET out == save_report(a.dir, r.report, a.format, a.now)
                  IN  [raised |-> NoException, exit_code |-> RunExitOk,
                       printed |-> start \o <<OutSaved(out.path),
                                              Out("[OK] Profiling complete")>>,
                       files |-> out.files]

RunArgs ==
    [script : ScriptPaths, ending : SubjectEndings, status : SubjectExitStatuses,
     fault : ProfileFaults, stats : Runs, format : RunFormats, tree : BOOLEAN,
     mkdir : BOOLEAN, now : {0}, dir : {EmptyDir}]

NoArgs ==
    [script |-> ScriptPath("", ""), ending |-> "completed", status |-> 0,
     fault |-> "none", stats |-> NoRun, format |-> "terminal", tree |-> FALSE,
     mkdir |-> TRUE, now |-> 0, dir |-> EmptyDir]

RunStart ==
    /\ run_pc = "start"
    /\ run_args = NoArgs
    /\ run_exit = NoExit
    /\ run_printed = << >>
    /\ run_files = EmptyDir

\* profilescope run <script> [--format F] [--tree]
run_command ==
    /\ run_pc = "start"
    /\ \E a \in RunArgs :
          LET out == main_run(a)
          IN  /\ run_args' = a
              /\ run_exit' = out.exit_code
              /\ run_printed' = out.printed
              /\ run_files' = out.files
    /\ run_pc' = "exited"
    /\ UNCHANGED <<cmpVars, parseVars, profileVars, saveVars, analyseVars, statsVars>>


\* ------------------------------------------- analysis and export of a report

\* Records per list.
MaxFuncs == 12

DigitChar(d) ==
    CASE d = 0 -> "0" [] d = 1 -> "1" [] d = 2 -> "2" [] d = 3 -> "3" [] d = 4 -> "4"
      [] d = 5 -> "5" [] d = 6 -> "6" [] d = 7 -> "7" [] d = 8 -> "8" [] d = 9 -> "9"

\* str(n) for n >= 0
RECURSIVE ToDigits(_)
ToDigits(n) ==
    IF n < 10 THEN <<DigitChar(n)>> ELSE ToDigits(n \div 10) \o <<DigitChar(n % 10)>>

\* The cumulative time (thousandths of a second) of the k-th record of a list:
\* the same for all, alternating, or large only after the first 10 or the
\* first 5 records.
CumShapes == {"flat10", "flat11", "mixed", "late", "sixth"}

CumulativeAt(shape, k) ==
    CASE shape = "flat10" -> 10
      [] shape = "flat11" -> 11
      [] shape = "mixed" -> IF k % 2 = 1 THEN 11 ELSE 10
      [] shape = "late" -> IF k > TopDisplayed THEN 50 ELSE 1
      [] shape = "sixth" -> IF k > TopRecommended THEN 50 ELSE 1

\* The call counts of the k-th record: total and primitive.
CallPatterns ==
    {"plain", "busy", "edge", "recursive", "busy recursive", "inverted",
     "alternating", "late", "after ten"}

Calls(total, primitive) == [total |-> total, primitive |-> primitive]

CallsAt(pattern, k) ==
    CASE pattern = "plain" -> Calls(1, 1)
      [] pattern = "busy" -> Calls(HighCallCount + 1, HighCallCount + 1)
      [] pattern = "edge" -> Calls(HighCallCount, HighCallCount)
      [] pattern = "recursive" -> Calls(3, 1)
      [] pattern = "busy recursive" -> Calls(2 * HighCallCount, 1)
      [] pattern = "inverted" -> Calls(1, 3)
      [] pattern = "alternating" ->
            IF k % 2 = 1 THEN Calls(2 * HighCallCount, 1) ELSE Calls(1, 1)
      [] pattern = "late" ->
            IF k > TopRecommended THEN Calls(2 * HighCallCount, 1) ELSE Calls(1, 1)
      [] pattern = "after ten" ->
            IF k > TopDisplayed THEN Calls(2 * HighCallCount, 1) ELSE Calls(1, 1)

\* total_time of the run, in thousandths of a second
AnalysisTimes == {0, 50, 100, 110}

\* The k-th FunctionStats of a list, its percentage as line 241 computes it
FunctionRecord(k, shape, pattern, total_time) ==
    [name |-> <<"f">> \o ToDigits(k),
     filename |-> <<"a.py">>,
     line_number |-> k,
     total_calls |-> CallsAt(pattern, k).total,
     primitive_calls |-> CallsAt(pattern, k).primitive,
     total_time |-> 1,
     cumulative_time |-> CumulativeAt(shape, k),
     time_per_call |-> 0,
     cumulative_per_call |-> 0,
     percentage |-> Percentage(CumulativeAt(shape, k), total_time)]

FunctionList(n, shape, pattern, total_time) ==
    [k \in 1..n |-> FunctionRecord(k, shape, pattern, total_time)]

RECURSIVE SumCalls(_)
SumCalls(funcs) ==
    IF funcs = << >> THEN 0 ELSE Head(funcs).total_calls + SumCalls(Tail(funcs))

\* The report profile() builds from the records and their analysis (lines
\* 160-169)
AnalysedReport(funcs, total_time, bottlenecks, recommendations, now) ==
    [script_path |-> ScriptPath("work", "a"),
     total_time |-> total_time,
     total_calls |-> SumCalls(funcs),
     hot_functions |-> funcs,
     bottlenecks |-> bottlenecks,
     call_tree |-> [total_calls |-> SumCalls(funcs),
                    primitive_calls |-> SumCalls(funcs),
                    total_functions |-> Len(funcs)],
     recommendations |-> recommendations,
     timestamp |-> now]

\* The report directory before the export: it holds a report saved a second
\* earlier.
OldDir ==
    save_report(EmptyDir, AnalysedReport(<< >>, 0, << >>, NoIssues, 0), "markdown", 0).files

\* Formats asked of save_report: the three it knows and others
ExportFormats == SaveFormats \cup {"xml", "terminal", "JSON"}

AnalyseStart ==
    /\ an_pc = "start"
    /\ an_funcs = << >>
    /\ an_total_time = 0
    /\ an_bottlenecks = << >>
    /\ an_recommendations = << >>
    /\ an_format = "none"
    /\ an_dir = OldDir
    /\ an_saved = [raised |-> NoException, path |-> NoPath]
    /\ an_loaded = NoReport

\* lines 148-157 of profile(): bottlenecks and recommendations of the records
analyse_functions ==
    /\ an_pc = "start"
    /\ \E n \in 0..MaxFuncs, shape \in CumShapes, pattern \in CallPatterns,
          total_time \in AnalysisTimes :
          LET funcs == FunctionList(n, shape, pattern, total_time)
          IN  /\ an_funcs' = funcs
              /\ an_total_time' = total_time
              /\ an_bottlenecks' = _identify_bottlenecks(funcs)
              /\ an_recommendations' = _generate_recommendations(funcs, total_time)
    /\ an_pc' = "analysed"
    /\ UNCHANGED <<an_format, an_dir, an_saved, an_loaded>>
    /\ UNCHANGED <<cmpVars, parseVars, profileVars, saveVars, runVars, statsVars>>

\* save_report(report, format) one second later, and json.load of the file
\* when it is a JSON file
export_report ==
    /\ an_pc = "analysed"
    /\ \E format \in ExportFormats :
          LET report == AnalysedReport(an_funcs, an_total_time, an_bottlenecks,
                                       an_recommendations, 1)
              out == save_report(an_dir, report, format, 1)
          IN  /\ an_format' = format
              /\ an_dir' = out.files
              /\ an_saved' = [raised |-> out.raised, path |-> out.path]
              /\ an_loaded' = IF format = "json"
                              THEN json_load(out.files[out.path].text)
                              ELSE NoReport
    /\ an_pc' = "exported"
    /\ UNCHANGED <<an_funcs, an_total_time, an_bottlenecks, an_recommendations>>
    /\ UNCHANGED <<cmpVars, parseVars, profileVars, saveVars, runVars, statsVars>>

\* ------------------------------------------------- from the stats to records

\* Functions the profiler holds.
MaxEntries == 21

\* limit: int = 20, the restriction given to print_stats
StatsLimit == 20

\* A function of the stats: its calls (nc) and primitive calls (cc), its own
\* and cumulative time in thousandths of a second, and its name.
Entry(k, nc, cc, tt, ct, function) ==
    [key |-> k, nc |-> nc, cc |-> cc, tt |-> tt, ct |-> ct, function |-> function]

\* Mutant of sort_stats: ascending order.
RECURSIVE SortAscending(_)
SortAscending(entries) ==
    IF entries = << >> THEN << >>
    ELSE LET rest == SortAscending(Tail(entries))
             x == Head(entries)
             before == SelectSeq(rest, LAMBDA y : y.ct < x.ct)
             after == SelectSeq(rest, LAMBDA y : y.ct >= x.ct)
         IN  before \o <<x>> \o after

\* stats.sort_stats('cumulative'): by cumulative time, largest first, equal
\* times in the order the stats hold them
RECURSIVE sort_stats(_)
sort_stats(entries) ==
    IF entries = << >> THEN << >>
    ELSE LET rest == sort_stats(Tail(entries))
             x == Head(entries)
             before == SelectSeq(rest, LAMBDA y : y.ct > x.ct)
             after == SelectSeq(rest, LAMBDA y : y.ct <= x.ct)
         IN  before \o <<x>> \o after

\* "%8.3f" of a time in thousandths of a second, without the padding
F8(n) ==
    ToDigits(n \div 1000)
    \o <<".", DigitChar((n % 1000) \div 100), DigitChar((n % 100) \div 10),
         DigitChar(n % 10)>>

\* t / n rounded to the thousandth, half to even
RoundDiv(t, n) ==
    LET q == t \div n
        r == t % n
    IN  IF 2 * r > n THEN q + 1
        ELSE IF 2 * r < n THEN q
        ELSE IF q % 2 = 0 THEN q ELSE q + 1

\* pstats print_line: "nc/cc" for a recursive function, a blank field for a
\* per-call time whose count is 0
PrintLine(x) ==
    <<IF x.nc # x.cc THEN ToDigits(x.nc) \o <<"/">> \o ToDigits(x.cc) ELSE ToDigits(x.nc)>>
    \o <<F8(x.tt)>>
    \o (IF x.nc = 0 THEN << >> ELSE <<F8(RoundDiv(x.tt, x.nc))>>)
    \o <<F8(x.ct)>>
    \o (IF x.cc = 0 THEN << >> ELSE <<F8(RoundDiv(x.ct, x.cc))>>)
    \o <<x.function>>

\* The list print_stats(limit) prints: the first `limit` of the sorted stats
Listed(entries) == Take(sort_stats(entries), StatsLimit)

\* stats.print_stats(limit): title, order, header, one line per function
print_stats(entries, total_time) ==
    <<<<ToDigits(Len(entries)), <<"function">>, <<"calls">>, <<"in">>, F8(total_time),
        <<"seconds">>>>,
      BlankLine,
      <<<<"Ordered">>, <<"by", ":">>, <<"cumulative">>, <<"time">>>>,
      BlankLine,
      HeaderLine>>
    \o [i \in DOMAIN Listed(entries) |-> PrintLine(Listed(entries)[i])]
    \o <<BlankLine, BlankLine>>

\* The order in which the stats hold their functions, as cumulative times.
EntryOrders == {"ascending", "descending", "zigzag", "equal"}

CumulativeOf(order, k, n) ==
    CASE order = "ascending" -> k
      [] order = "descending" -> n + 1 - k
      [] order = "zigzag" -> IF k % 2 = 1 THEN k ELSE 2 * n - k
      [] order = "equal" -> 5

\* What the functions are: all called and returned; every third recursive;
\* every third never returned (no call counted); every third with the column
\* labels in its name.
EntryKinds == {"plain", "recursive", "unreturned", "labels"}

FunctionName(k) ==
    <<"a.py", ":">> \o ToDigits(k) \o <<"(", "f">> \o ToDigits(k) \o <<")">>

EntryOf(kind, order, k, n) ==
    LET ct == CumulativeOf(order, k, n)
    IN  IF k % 3 # 0 \/ kind = "plain" THEN Entry(k, 2, 2, 1, ct, FunctionName(k))
        ELSE CASE kind = "recursive" -> Entry(k, 7, 1, 1, ct, FunctionName(k))
               [] kind = "unreturned" -> Entry(k, 0, 0, 1, ct, FunctionName(k))
               [] kind = "labels" ->
                     Entry(k, 2, 2, 1, ct,
                           <<"a.py", ":">> \o ToDigits(k) \o <<"(", "ncalls", "tottime", ")">>)

Entries(n, kind, order) == [k \in 1..n |-> EntryOf(kind, order, k, n)]

NoStats == [entries |-> << >>, listed |-> << >>, text |-> << >>, total_time |-> 0]

StatsStart ==
    /\ st_pc = "start"
    /\ st_stats = NoStats
    /\ st_funcs = << >>

\* _extract_hot_functions(stats, total_time), lines 177-261: sort, print,
\* parse
extract_from_stats ==
    /\ st_pc = "start"
    /\ \E n \in 0..MaxEntries, kind \in EntryKinds, order \in EntryOrders,
          total_time \in RunTimes :
          LET entries == Entries(n, kind, order)
              text == print_stats(entries, total_time)
          IN  /\ st_stats' = [entries |-> entries, listed |-> Listed(entries),
                              text |-> text, total_time |-> total_time]
              /\ st_funcs' = _extract_hot_functions(text, total_time)
    /\ st_pc' = "extracted"
    /\ UNCHANGED <<cmpVars, parseVars, profileVars, saveVars, runVars, analyseVars>>


\* ---------------------------------------------------------- specifications

InitCompare ==
    CompareStart /\ ParseStart /\ SessionStart /\ RunStart /\ AnalyseStart /\ StatsStart

NextCompare == compare_command

SpecCompare == InitCompare /\ [][NextCompare]_vars

InitParse ==
    CompareStart /\ ParseStart /\ SessionStart /\ RunStart /\ AnalyseStart /\ StatsStart

NextParse == extract_hot_functions

SpecParse == InitParse /\ [][NextParse]_vars

Init ==
    CompareStart /\ ParseStart /\ SessionStart /\ RunStart /\ AnalyseStart /\ StatsStart

Next ==
    \/ profile_not_found
    \/ profile_begin
    \/ start_subject
    \/ subject_ends
    \/ restore_argv
    \/ dump_stats
    \/ load_stats
    \/ analyse
    \/ cleanup
    \/ save_report_call
    \/ tick

Spec == Init /\ [][Next]_vars

InitRun ==
    CompareStart /\ ParseStart /\ SessionStart /\ RunStart /\ AnalyseStart /\ StatsStart

NextRun == run_command

SpecRun == InitRun /\ [][NextRun]_vars

InitAnalyse ==
    CompareStart /\ ParseStart /\ SessionStart /\ RunStart /\ AnalyseStart /\ StatsStart

NextAnalyse == analyse_functions \/ export_report

SpecAnalyse == InitAnalyse /\ [][NextAnalyse]_vars

InitStats ==
    CompareStart /\ ParseStart /\ SessionStart /\ RunStart /\ AnalyseStart /\ StatsStart

NextStats == extract_from_stats

SpecStats == InitStats /\ [][NextStats]_vars

\* ========================================================== claims: parser

Parsed == parse_pc = "parsed"

\* C1: every record the parser retains has total_calls >= primitive_calls,
\* whatever the text, for call-count fields N and P/T with integer parts.
C1_TotalAtLeastPrimitive ==
    Parsed =>
        \A i \in DOMAIN hot_functions :
            hot_functions[i].total_calls >= hot_functions[i].primitive_calls


\* The lines after the first header line, and those of them the parser keeps
HeaderLines == {i \in DOMAIN output : IsHeader(output[i])}

AfterHeader ==
    IF HeaderLines = {} THEN << >>
    ELSE SubSeq(output, Min(HeaderLines) + 1, Len(output))

KeptLines ==
    SelectSeq(AfterHeader,
              LAMBDA line : ~IsHeader(line) /\ Len(line) >= 6 /\ RowOk(SplitLine(line)))

\* C20: for every row the parser retains, a call-count field N gives
\* primitive_calls = total_calls = N, and a field P/T gives primitive_calls =
\* P, the part before the slash, and total_calls = T, the part after it.
C20_CallCountField ==
    Parsed =>
        LET kept == KeptLines
        IN  /\ Len(hot_functions) = Len(kept)
            /\ \A i \in DOMAIN hot_functions :
                  LET field == kept[i][1]
                      slash == Min(Positions(field, "/"))
                  IN  IF Contains(field, "/")
                      THEN /\ hot_functions[i].primitive_calls =
                                  IntValue(SubSeq(field, 1, slash - 1))
                           /\ hot_functions[i].total_calls =
                                  IntValue(SubSeq(field, slash + 1, Len(field)))
                      ELSE /\ hot_functions[i].primitive_calls = IntValue(field)
                           /\ hot_functions[i].total_calls = IntValue(field)

\* C20 witness: a text with a row 3/1 and a row 12, both retained.
C20_Witness ==
    /\ Parsed
    /\ \E i \in DOMAIN hot_functions :
          /\ KeptLines[i][1] = <<"3", "/", "1">>
          /\ hot_functions[i].primitive_calls = 3
          /\ hot_functions[i].total_calls = 1
    /\ \E i \in DOMAIN hot_functions :
          /\ KeptLines[i][1] = <<"1", "2">>
          /\ hot_functions[i].total_calls = 12

\* The lines after the header with six columns or more whose numeric fields
\* and call-count field parse
WellFormedLines ==
    SelectSeq(AfterHeader,
              LAMBDA line : Len(line) >= 6 /\ RowOk(SplitLine(line)))

\* One record for each of the lines, each from its own line alone
RECURSIVE RecordsOf(_, _)
RecordsOf(lines, total_time) ==
    IF lines = << >> THEN << >>
    ELSE <<FunctionStats(SplitLine(Head(lines)), total_time)>>
             \o RecordsOf(Tail(lines), total_time)

\* C21: the parser returns a list for every text; after the header, a row
\* with fewer than six columns, with a numeric field that does not parse or
\* with a call-count field that is neither N nor P/T is dropped, every other
\* row gives exactly one record, and the record of a row does not depend on
\* the rows around it.
C21_OneRecordPerRow ==
    Parsed => hot_functions = RecordsOf(WellFormedLines, run_total_time)

\* The text between the first "(" of a token and its closing ")"
InParentheses(tok) ==
    SubSeq(tok, Min(Positions(tok, "(")) + 1, Len(tok) - 1)

BeforeParenthesis(tok) == SubSeq(tok, 1, Min(Positions(tok, "(")) - 1)

\* A token file:line(name): one pair of parentheses closing the token, a
\* colon before it and digits between the last such colon and the "("
IsFileLineName(tok) ==
    /\ Cardinality(Positions(tok, "(")) = 1
    /\ tok[Len(tok)] = ")"
    /\ Contains(BeforeParenthesis(tok), ":")
    /\ IsDigit(RSplit1(BeforeParenthesis(tok), ":")[2])

\* A token with parentheses and no colon anywhere
IsFileName(tok) ==
    /\ Cardinality(Positions(tok, "(")) = 1
    /\ tok[Len(tok)] = ")"
    /\ ~Contains(tok, ":")

\* C22: the location token of a retained row file:line(name) gives filename
\* file, line_number line and name name; a token with "(" and no ":" gives
\* as filename the text before "(", line_number 0 and as name the text in
\* the parentheses; a token without parentheses gives the whole token as
\* name, filename "unknown" and line_number 0.
C22_LocationSplit ==
    Parsed =>
        LET kept == KeptLines
        IN  \A i \in DOMAIN hot_functions :
                LET tok == SplitLine(kept[i])[6]
                    f == hot_functions[i]
                IN  /\ IsFileLineName(tok) =>
                          LET fl == RSplit1(BeforeParenthesis(tok), ":")
                          IN  /\ f.filename = fl[1]
                              /\ f.line_number = DecimalValue(fl[2])
                              /\ f.name = InParentheses(tok)
                    /\ IsFileName(tok) =>
                          /\ f.filename = BeforeParenthesis(tok)
                          /\ f.line_number = 0
                          /\ f.name = InParentheses(tok)
                    /\ (~Contains(tok, "(") /\ ~Contains(tok, ")")) =>
                          /\ f.filename = <<"unknown">>
                          /\ f.line_number = 0
                          /\ f.name = tok

\* C23: no record comes from a line before the header line, the first line
\* that holds both column labels, however well-formed it is as a row; the
\* header line gives no record; a text without a header line gives the empty
\* list.
C23_NothingBeforeHeader ==
    Parsed =>
        LET after == AfterHeader
        IN  /\ HeaderLines = {} => hot_functions = << >>
            /\ Len(hot_functions) <= Len(after)
            /\ \A i \in DOMAIN hot_functions :
                  \E j \in DOMAIN after :
                      /\ Len(after[j]) >= 6
                      /\ RowOk(SplitLine(after[j]))
                      /\ hot_functions[i] =
                             FunctionStats(SplitLine(after[j]), run_total_time)

\* C23 witness: a well-formed row, then the header, then two rows of which
\* the parser keeps both: two records from three well-formed rows.
C23_Witness ==
    /\ Parsed
    /\ Len(output) = 4
    /\ output[1] = GoodRow
    /\ Min(HeaderLines) = 2
    /\ output[3] = GoodRow
    /\ Len(hot_functions) = 2

\* ========================================================= claims: session

\* C2: the temporary file of a profile() call exists from before the subject
\* starts, is gone when the call has returned or raised, whichever way it
\* ended, and a call on a path that does not exist raises FileNotFoundError
\* without creating one.
C2_TempFileRemoved ==
    /\ [](pc = "idle" => tmp_files = {})
    /\ [](pc \in {"running", "subject ended"} => tmp_path \in tmp_files)
    /\ [][(pc = "idle" /\ profiles' # profiles /\ script_path' \notin ExistingScripts)
            => /\ tmp_files' = tmp_files
               /\ pc' = "idle"
               /\ profile_result' = Raised("FileNotFoundError")]_vars
    /\ [][(pc = "idle" /\ profiles' # profiles /\ script_path' \in ExistingScripts)
            => /\ tmp_path' \notin tmp_files
               /\ tmp_path' \in tmp_files'
               /\ subject' = "not started"]_vars

\* C2 witness: a call whose stats could not be loaded has raised, and its
\* temporary file is gone.
C2_Witness ==
    /\ pc = "idle"
    /\ subject = "completed"
    /\ profile_result = Raised("ValueError")
    /\ profiles > 0
    /\ tmp_files = {}

C4_ReportFilesAppendOnly ==
    [][\A f \in DOMAIN files : f \in DOMAIN files' /\ files'[f] = files[f]]_vars


\* ===================================================== claims: run command

RunExited == run_pc = "exited"

ReportPrinted == \E i \in DOMAIN run_printed : run_printed[i].text = "report"

ReportSaved == run_files # EmptyDir

\* C11: the run command exits 0 when the subject was profiled and the report
\* printed or saved, and 1 when the subject path does not exist or the
\* subject faults; a run whose subject did not run to its end never exits 0
\* and never prints or saves a report.
C11_RunExitStatus ==
    RunExited =>
        /\ (run_exit = 0) =>
              /\ run_args.script \in ExistingScripts
              /\ run_args.ending = "completed"
              /\ ReportPrinted \/ ReportSaved
        /\ (run_args.mkdir /\ run_args.script \notin ExistingScripts) => run_exit = 1
        /\ (run_args.mkdir /\ run_args.script \in ExistingScripts
              /\ run_args.ending # "completed") =>
              /\ run_exit = 1
              /\ ~ReportPrinted
              /\ ~ReportSaved


\* ======================================================== claims: analysis

Analysed == an_pc # "start"

\* Position of i among the members of S, counted from 1
Rank(S, i) == Cardinality({j \in S : j <= i})

Over(f, percent) == f[1] > percent * f[2]

\* The records that make a bottleneck: among the first 10, over 10 percent
BottleneckRecords ==
    {i \in DOMAIN an_funcs : i <= 10 /\ Over(an_funcs[i].percentage, 10)}

\* C12: the bottlenecks are, in record order, one entry "name (percent with
\* one decimal)" for each record among the first 10 whose percentage is
\* strictly over 10.0, and nothing else; at most 10 entries.
C12_BottlenecksOfTopTen ==
    Analysed =>
        /\ Len(an_bottlenecks) = Cardinality(BottleneckRecords)
        /\ Len(an_bottlenecks) <= 10
        /\ \A i \in BottleneckRecords :
              an_bottlenecks[Rank(BottleneckRecords, i)] =
                  [name |-> an_funcs[i].name,
                   percent |-> Tenths(an_funcs[i].percentage)]

\* C12 witness: among the first 10 records some are over 10 percent and some
\* at exactly 10.0, and the 11th record is over 10 percent.
C12_Witness ==
    /\ Analysed
    /\ Len(an_funcs) >= 11
    /\ Over(an_funcs[11].percentage, 10)
    /\ \E i \in 1..10 : an_funcs[i].percentage = <<10, 1>>
    /\ \E i \in 1..10 : Over(an_funcs[i].percentage, 10)
    /\ Len(an_bottlenecks) = 5


\* The records each rule matches: among the first 5 with total_calls over
\* 10000; among the first 5 with cumulative_time over 0.2 * total_time;
\* among the first 10 with primitive_calls < total_calls.
HighCallRecords ==
    {i \in DOMAIN an_funcs : i <= 5 /\ an_funcs[i].total_calls > 10000}

HotPathRecords ==
    {i \in DOMAIN an_funcs : i <= 5 /\ 10 * an_funcs[i].cumulative_time > 2 * an_total_time}

RecursionRecords ==
    {i \in DOMAIN an_funcs :
        i <= 10 /\ an_funcs[i].primitive_calls < an_funcs[i].total_calls}

SomeRuleMatches ==
    HighCallRecords # {} \/ HotPathRecords # {} \/ RecursionRecords # {}

\* C13: for a non-empty list with a matching rule the recommendations are the
\* three groups in the order high call count, hot path, recursion; each
\* group in record order with one entry for every matching record.
C13_RecommendationGroups ==
    (Analysed /\ an_funcs # << >> /\ SomeRuleMatches) =>
        LET n1 == Cardinality(HighCallRecords)
            n2 == Cardinality(HotPathRecords)
            n3 == Cardinality(RecursionRecords)
        IN  /\ Len(an_recommendations) = n1 + n2 + n3
            /\ \A i \in HighCallRecords :
                  LET r == an_recommendations[Rank(HighCallRecords, i)]
                  IN  /\ r.rule = "Consider optimizing"
                      /\ r.name = an_funcs[i].name
                      /\ r.total_calls = an_funcs[i].total_calls
            /\ \A i \in HotPathRecords :
                  LET r == an_recommendations[n1 + Rank(HotPathRecords, i)]
                  IN  /\ r.rule = "Hot path detected"
                      /\ r.name = an_funcs[i].name
                      /\ r.cumulative_time = an_funcs[i].cumulative_time
                      /\ r.percent = Tenths(an_funcs[i].percentage)
            /\ \A i \in RecursionRecords :
                  LET r == an_recommendations[n1 + n2 + Rank(RecursionRecords, i)]
                  IN  /\ r.rule = "Recursive function"
                      /\ r.name = an_funcs[i].name
                      /\ r.total_calls = an_funcs[i].total_calls
                      /\ r.primitive_calls = an_funcs[i].primitive_calls

\* C13 witness: records among the first 5 match all three rules, records 6
\* to 10 match the recursion rule only, and there are records after the 10th.
C13_Witness ==
    /\ Analysed
    /\ Len(an_funcs) > 10
    /\ HighCallRecords \cap HotPathRecords \cap RecursionRecords # {}
    /\ Cardinality(HighCallRecords) = 3
    /\ Cardinality(RecursionRecords) = 5
    /\ Len(an_recommendations) > Cardinality(RecursionRecords)

\* C14: an empty list gives exactly the one recommendation "No significant
\* performance issues detected.", whatever total_time is.
C14_EmptyListRecommendation ==
    (Analysed /\ an_funcs = << >>) =>
        /\ Len(an_recommendations) = 1
        /\ an_recommendations[1] = [rule |-> "No significant performance issues detected."]

\* C14 witness: an empty list analysed with a total_time that is not 0.
C14_Witness ==
    /\ Analysed
    /\ an_funcs = << >>
    /\ an_total_time > 0
    /\ Len(an_recommendations) = 1

GoodEntry == [rule |-> "Performance looks good! No major bottlenecks detected."]

\* C15: the recommendations are never empty; for a non-empty list the entry
\* "Performance looks good! ..." is there iff no rule matched a record, and
\* then it is the only entry.
C15_RecommendationsNeverEmpty ==
    Analysed =>
        /\ an_recommendations # << >>
        /\ an_funcs # << >> =>
              /\ (\E i \in DOMAIN an_recommendations : an_recommendations[i] = GoodEntry)
                    <=> ~SomeRuleMatches
              /\ ~SomeRuleMatches => an_recommendations = <<GoodEntry>>

\* C15 witness: a list of more than 10 records none of which matches a rule
\* among the first 10, while a later record is recursive and called often.
C15_Witness ==
    /\ Analysed
    /\ Len(an_funcs) > 10
    /\ ~SomeRuleMatches
    /\ an_funcs[11].primitive_calls < an_funcs[11].total_calls
    /\ an_recommendations = <<GoodEntry>>


\* =========================================================== claims: stats

Extracted == st_pc = "extracted"

\* The lines of the listing that the parser keeps: those with both per-call
\* fields and without the column labels in the function name.
Retained ==
    SelectSeq(st_stats.listed,
              LAMBDA x : x.nc # 0 /\ x.cc # 0 /\ ~Contains(x.function, "ncalls"))

\* C16: hot_functions has at most 20 records in non-increasing order of
\* cumulative_time; the parser adds no record and keeps the retained rows in
\* the order in which the profiler listed them.
C16_TopTwentySorted ==
    Extracted =>
        /\ Len(st_funcs) <= 20
        /\ \A i \in DOMAIN st_funcs : \A j \in DOMAIN st_funcs :
              i < j => st_funcs[i].cumulative_time >= st_funcs[j].cumulative_time
        /\ Len(st_funcs) = Len(Retained)
        /\ \A i \in DOMAIN st_funcs :
              /\ st_funcs[i].line_number = Retained[i].key
              /\ st_funcs[i].cumulative_time = Retained[i].ct

\* C16 witness: stats of more than 20 functions held in another order than
\* by cumulative time, of which the parser keeps 20.
C16_Witness ==
    /\ Extracted
    /\ Len(st_stats.entries) > 20
    /\ \E i \in DOMAIN st_stats.entries : \E j \in DOMAIN st_stats.entries :
          i < j /\ st_stats.entries[i].ct < st_stats.entries[j].ct
    /\ Len(st_funcs) = 20
    /\ st_funcs[1].cumulative_time > st_funcs[20].cumulative_time


\* ========================================================== claims: export

Exported == an_pc = "exported"

ReportKeys ==
    {"script_path", "total_time", "total_calls", "hot_functions", "bottlenecks",
     "call_tree", "recommendations", "timestamp"}

FunctionStatsKeys ==
    {"name", "filename", "line_number", "total_calls", "primitive_calls",
     "total_time", "cumulative_time", "time_per_call", "cumulative_per_call",
     "percentage"}

\* C17: a report saved as JSON and loaded again is an object with exactly
\* the eight report keys, each equal to the report's field; hot_functions
\* has the length and order of the report's list, more than 10 records
\* included, and every element has the ten FunctionStats fields.
C17_JsonRoundTrip ==
    (Exported /\ an_format = "json") =>
        /\ an_saved.raised = NoException
        /\ DOMAIN an_loaded = ReportKeys
        /\ an_loaded.script_path = ScriptPath("work", "a")
        /\ an_loaded.total_time = an_total_time
        /\ an_loaded.total_calls = SumCalls(an_funcs)
        /\ an_loaded.bottlenecks = an_bottlenecks
        /\ an_loaded.recommendations = an_recommendations
        /\ an_loaded.timestamp = 1
        /\ DOMAIN an_loaded.call_tree = {"total_calls", "primitive_calls", "total_functions"}
        /\ an_loaded.call_tree.total_functions = Len(an_funcs)
        /\ an_loaded.call_tree.total_calls = SumCalls(an_funcs)
        /\ an_loaded.call_tree.primitive_calls = SumCalls(an_funcs)
        /\ Len(an_loaded.hot_functions) = Len(an_funcs)
        /\ \A i \in DOMAIN an_funcs :
              /\ DOMAIN an_loaded.hot_functions[i] = FunctionStatsKeys
              /\ \A k \in FunctionStatsKeys :
                    an_loaded.hot_functions[i][k] = an_funcs[i][k]

\* C17 witness: a report of more than 10 records saved as JSON and loaded.
C17_Witness ==
    /\ Exported
    /\ an_format = "json"
    /\ Len(an_funcs) > 10
    /\ Len(an_loaded.hot_functions) = Len(an_funcs)
    /\ an_loaded.bottlenecks # << >>

MarkdownLines == an_dir[an_saved.path].lines

HasLine(text) == \E i \in DOMAIN MarkdownLines : MarkdownLines[i].text = text

TableRows == {i \in DOMAIN MarkdownLines : MarkdownLines[i].text = "| row |"}

\* C18: in the Markdown file each of the sections Hot Functions, Bottlenecks
\* and Recommendations is present iff its list in the report is non-empty,
\* and the Hot Functions table has min(10, len(hot_functions)) data rows.
C18_MarkdownSections ==
    (Exported /\ an_format = "markdown") =>
        /\ HasLine("## Hot Functions") <=> an_funcs # << >>
        /\ HasLine("| Function | Time (s) | Calls | % |") <=> an_funcs # << >>
        /\ HasLine("## Bottlenecks") <=> an_bottlenecks # << >>
        /\ HasLine("## Recommendations") <=> an_recommendations # << >>
        /\ Cardinality(TableRows) = IF Len(an_funcs) < 10 THEN Len(an_funcs) ELSE 10

\* C19: save_report with a format other than json, markdown and html raises
\* ValueError, returns no path and leaves the report directory as it was.
C19_UnknownFormatRejected ==
    (Exported /\ an_format \notin {"json", "markdown", "html"}) =>
        /\ an_saved.raised = "ValueError"
        /\ an_saved.path = NoPath
        /\ DOMAIN an_dir = DOMAIN OldDir
        /\ \A f \in DOMAIN OldDir : an_dir[f] = OldDir[f]

\* C19 witness: save_report("xml") has raised on a directory that holds a
\* report.
C19_Witness ==
    /\ Exported
    /\ an_format = "xml"
    /\ an_saved.raised = "ValueError"
    /\ DOMAIN an_dir # {}
    /\ an_funcs # << >>


\* ============================================================ claims: argv

\* C24: while the subject runs sys.argv is [script_path] + script_args, and
\* whenever profile() is not running (it has returned or raised, a fault of
\* the subject included, or has not been called) sys.argv is the value it
\* had before the call, after any number of calls.
C24_ArgvRestored ==
    /\ pc = "running" => sys_argv = Argv(script_path, script_args)
    /\ pc = "idle" => sys_argv = CallerArgv

\* C24 witness: the second call of profile() has raised for a subject that
\* raised, and sys.argv is the caller's.
C24_Witness ==
    /\ pc = "idle"
    /\ profiles = MaxProfiles
    /\ subject = "Exception"
    /\ profile_result.status = "raised"
    /\ IsRuntimeError(profile_result.exception)
    /\ sys_argv = CallerArgv

\* ======================================================= claims: comparator

Exited == cmp_pc = "exited"

Compared == Exited /\ comparison.kind = "comparison"

\* The exact relative change of a metric in percent, from the two files.
ExactChange(b, c) == Frac((c - b) * 100, b)

\* C5 as stated: for total_time and for total_calls the change percent is
\* (current - baseline) / baseline * 100 whenever the baseline value is
\* non-zero, and 0 when it is 0.
C5_ChangeForNonZeroBaseline ==
    (Compared /\ WellFormed(baseline_file) /\ WellFormed(current_file)) =>
        LET bt == baseline_file.total_time.v
            ct == current_file.total_time.v
            bc == baseline_file.total_calls.v
            cc == current_file.total_calls.v
        IN  /\ comparison.time_change_percent =
                  IF bt # 0 THEN ExactChange(bt, ct) ELSE Zero
            /\ comparison.calls_change_percent =
                  IF bc # 0 THEN ExactChange(bc, cc) ELSE Zero

\* C5 amended: for total_time and for total_calls the change percent is
\* (current - baseline) / baseline * 100 when the baseline value is positive
\* and 0 when it is zero or negative; two well-formed reports always yield a
\* comparison, whatever the baseline value (no fault).
C5_ChangeForPositiveBaseline ==
    (Exited /\ mkdir_ok /\ WellFormed(baseline_file) /\ WellFormed(current_file)) =>
        LET bt == baseline_file.total_time.v
            ct == current_file.total_time.v
            bc == baseline_file.total_calls.v
            cc == current_file.total_calls.v
        IN  /\ comparison.kind = "comparison"
            /\ comparison.time_change_percent =
                  IF bt > 0 THEN ExactChange(bt, ct) ELSE Zero
            /\ comparison.calls_change_percent =
                  IF bc > 0 THEN ExactChange(bc, cc) ELSE Zero

\* C5 witness: a zero time baseline against a longer current run gives 0,
\* next to calls 100 -> 150 (2 -> 3 units) giving 50 percent.
C5_Witness ==
    /\ Compared
    /\ baseline_file.total_time = Num(0)
    /\ current_file.total_time = Num(5)
    /\ comparison.time_change_percent = Zero
    /\ baseline_file.total_calls = Num(2)
    /\ current_file.total_calls = Num(3)
    /\ comparison.calls_change_percent = <<50, 1>>

\* C6: regression_detected is true iff time_change_percent > 10.0 or
\* calls_change_percent > 20.0, both strict: exactly 10 percent more time
\* with exactly 20 percent more calls is no regression, and neither is a
\* decrease of both metrics.
C6_RegressionIffStrictlyOver ==
    Compared =>
        /\ comparison.regression_detected <=>
              \/ comparison.time_change_percent[1]
                    > 10 * comparison.time_change_percent[2]
              \/ comparison.calls_change_percent[1]
                    > 20 * comparison.calls_change_percent[2]
        /\ (comparison.time_change_percent = <<10, 1>>
            /\ comparison.calls_change_percent = <<20, 1>>)
              => ~comparison.regression_detected
        /\ (WellFormed(baseline_file) /\ WellFormed(current_file)
            /\ current_file.total_time.v < baseline_file.total_time.v
            /\ current_file.total_calls.v < baseline_file.total_calls.v)
              => ~comparison.regression_detected

\* C6 witness: 10 -> 11 time units and 5 -> 6 calls, compared, no regression.
C6_Witness ==
    /\ Compared
    /\ baseline_file.total_time = Num(10) /\ current_file.total_time = Num(11)
    /\ baseline_file.total_calls = Num(5) /\ current_file.total_calls = Num(6)
    /\ comparison.time_change_percent = <<10, 1>>
    /\ comparison.calls_change_percent = <<20, 1>>
    /\ ~comparison.regression_detected

\* The strings of a report file's bottleneck list ([] when the key is absent).
Strings(f) ==
    IF f.bottlenecks.t = "list"
    THEN {f.bottlenecks.v[i] : i \in 1 .. Len(f.bottlenecks.v)}
    ELSE {}

\* C7: new_bottlenecks holds exactly the strings of current.bottlenecks that
\* are not in baseline.bottlenecks, fixed_bottlenecks exactly those of
\* baseline.bottlenecks not in current.bottlenecks (equality of the whole
\* string); the two are disjoint and a string of both lists is in neither.
C7_BottleneckDifferences ==
    (Compared /\ WellFormed(baseline_file) /\ WellFormed(current_file)) =>
        /\ \A s \in Strings(baseline_file) \cup Strings(current_file) :
              /\ s \in comparison.new_bottlenecks <=>
                    (s \in Strings(current_file) /\ s \notin Strings(baseline_file))
              /\ s \in comparison.fixed_bottlenecks <=>
                    (s \in Strings(baseline_file) /\ s \notin Strings(current_file))
        /\ comparison.new_bottlenecks \subseteq Strings(current_file)
        /\ comparison.fixed_bottlenecks \subseteq Strings(baseline_file)
        /\ comparison.new_bottlenecks \cap comparison.fixed_bottlenecks = {}
        /\ \A s \in Strings(baseline_file) \cap Strings(current_file) :
              s \notin comparison.new_bottlenecks \cup comparison.fixed_bottlenecks

\* C7 witness: a bottleneck kept and one added; and the same function with
\* another percentage is another string.
C7_Witness ==
    /\ Compared
    /\ baseline_file.bottlenecks = List(<<Bottleneck("g", 125)>>)
    /\ current_file.bottlenecks = List(<<Bottleneck("f", 500), Bottleneck("g", 125)>>)
    /\ comparison.new_bottlenecks = {Bottleneck("f", 500)}
    /\ comparison.fixed_bottlenecks = {}

\* C8: a report compared with itself gives 0 percent for both changes, no
\* new and no fixed bottleneck, and no regression; and it is compared (no
\* fault) whenever it is well-formed.
C8_CompareWithItself ==
    (Exited /\ mkdir_ok /\ baseline_file = current_file) =>
        /\ WellFormed(baseline_file) => comparison.kind = "comparison"
        /\ comparison.kind = "comparison" =>
              /\ comparison.time_change_percent = Zero
              /\ comparison.calls_change_percent = Zero
              /\ comparison.new_bottlenecks = {}
              /\ comparison.fixed_bottlenecks = {}
              /\ ~comparison.regression_detected

\* C8 witness: a report with positive totals and two bottlenecks, compared
\* with itself.
C8_Witness ==
    /\ Compared
    /\ baseline_file = current_file
    /\ baseline_file.total_time = Num(2)
    /\ baseline_file.total_calls = Num(2)
    /\ Strings(baseline_file) = {Bottleneck("f", 500), Bottleneck("g", 125)}
    /\ comparison.time_change_percent = Zero

\* The malformed reports C9 names: invalid JSON, or a JSON object lacking
\* total_time or total_calls.
NamedMalformed(f) ==
    \/ f.kind = "invalid_json"
    \/ f.kind = "object" /\ (f.total_time.t = "missing" \/ f.total_calls.t = "missing")

Parsable(f) == f.kind = "object" \/ f.kind = "invalid_json"

\* C9 as stated: compare_reports raises FileNotFoundError whenever a file is
\* absent; whenever both exist and one is invalid JSON or lacks total_time
\* or total_calls it raises a ValueError, which is not the not-found error;
\* in both cases it returns no comparison.
C9_NotFoundAndValueError ==
    (Exited /\ mkdir_ok) =>
        /\ (~Exists(baseline_file) \/ ~Exists(current_file)) =>
              (IsFileNotFoundError(raised) /\ comparison = NoComparison)
        /\ (Parsable(baseline_file) /\ Parsable(current_file)
            /\ (NamedMalformed(baseline_file) \/ NamedMalformed(current_file))) =>
              (IsValueError(raised) /\ ~IsFileNotFoundError(raised)
               /\ comparison = NoComparison)

\* What the two files say about a regression, in integers: more than 10
\* percent over a positive time baseline, or more than 20 percent over a
\* positive calls baseline.
Regressed(b, c) ==
    \/ b.total_time.v > 0
       /\ (c.total_time.v - b.total_time.v) * 100 > 10 * b.total_time.v
    \/ b.total_calls.v > 0
       /\ (c.total_calls.v - b.total_calls.v) * 100 > 20 * b.total_calls.v

LastLine == printed[Len(printed)]

\* C10: the compare command returns 0 iff nothing fatal happened (the report
\* directory could be made, both files are present, readable and well-formed)
\* and the files show no regression; it returns 1 on a regression, on a
\* missing file and on every other fatal condition; and it has always
\* printed something: the verdict on stdout, or an "[X]" line on stderr.
C10_CompareExitStatus ==
    Exited =>
        /\ exit_code \in {0, 1}
        /\ exit_code = 0 <=>
              /\ mkdir_ok
              /\ WellFormed(baseline_file) /\ WellFormed(current_file)
              /\ ~Regressed(baseline_file, current_file)
        /\ (~Exists(baseline_file) \/ ~Exists(current_file)) => exit_code = 1
        /\ (Compared /\ comparison.regression_detected) => exit_code = 1
        /\ raised # NoException => exit_code = 1
        /\ printed # << >>
        /\ exit_code = 0 =>
              printed[Len(printed) - 1] = Out("[OK] No significant performance regression")
        /\ (exit_code = 1 /\ raised = NoException) =>
              printed[Len(printed) - 1] = Out("[!] REGRESSION DETECTED")
        /\ raised # NoException =>
              /\ LastLine.stream = "stderr"
              /\ (LastLine = Err("[X] Error")) <=> IsFileNotFoundError(raised)

\* C10 witness: two well-formed reports with a regression, exit status 1
\* after the verdict.
C10_Witness ==
    /\ Exited
    /\ exit_code = 1
    /\ raised = NoException
    /\ comparison.kind = "comparison"
    /\ comparison.regression_detected
    /\ WellFormed(baseline_file) /\ WellFormed(current_file)
    /\ Out("[!] REGRESSION DETECTED") \in {printed[i] : i \in DOMAIN printed}

====
